---- MODULE Spec2Model ----
(***************************************************************************)
(* Active-monitor resolution of the alt-tab picker: the Input State        *)
(* (src/monitor/state.rs), the adaptive poller (src/monitor/poller.rs)     *)
(* and the Monitor Tracker with its background poll loop                   *)
(* (src/monitor/tracker.rs); the picker's window list (src/delegate) and  *)
(* its window and visibility flag (src/picker, src/app).                   *)
(*                                                                         *)
(* Option<T> values are sequences: None is <<>> and Some(v) is <<v>>.      *)
(* A rectangle (Bounds<Pixels>) is a record [x, y, w, h]; pixel values are *)
(* integers.  An Instant is a reading of the monotonic clock.              *)
(***************************************************************************)
EXTENDS Integers, Sequences, FiniteSets, TLC

VARIABLES
    monitors,      \* MonitorTracker.monitors: the shared monitor list
    state,         \* MonitorTracker.state: the shared InputState
    any_visible,   \* MonitorTracker.any_visible: the picker-visibility flag
    state_lock,    \* the InputState mutex: "free", its owner "bg", or
                   \* "poisoned"
    clock,         \* the monotonic clock read by Instant::now()
    poll_safe,     \* platform.poll_focused_window()
    focus_calls,   \* number of calls of platform.focused_window_bounds()
    config_file,   \* the MonitorConfig the config file holds
    env,           \* what the platform and the clock can yield in this run
    bg,            \* locals of poll_loop / poll_tick (the background thread)
    ui,            \* locals of the thread calling snapshot / force_focus_update
    st,            \* the object exercised directly: an InputState (StateSpec),
                   \* an AdaptivePoller (PollerSpec), the two mutexes and
                   \* the threads' positions (LockSpec), a monitor list
                   \* (GeomSpec), poll_loop's config locals (ConfigSpec,
                   \* RefreshSpec), a WindowDelegate (DelegateSpec), the
                   \* inputs of resolve_monitors (ResolveSpec), the picker
                   \* window and its flag (PickerSpec)
    op             \* the last operation applied to st

vars ==
    <<monitors, state, any_visible, state_lock, clock, poll_safe, focus_calls,
      config_file, env, bg, ui, st, op>>

trackerVars ==
    <<monitors, state, any_visible, state_lock, clock, poll_safe, focus_calls,
      config_file, env, bg, ui>>

(***************************************************************************)
(* Bounds of the model.                                                    *)
(***************************************************************************)
\* Largest reading of the monotonic clock.
MaxTime ==
    1

\* Largest number of focused_window_bounds() calls that are counted.
MaxFocusCalls ==
    2

\* Largest Instant used as an argument in StateSpec.
MaxStamp ==
    3

\* Largest reading of the clock in LoopSpec.
MaxLoopTime ==
    2

\* Largest reading of the clock in CallSpec.
MaxCallTime ==
    2

\* Duration::MAX at the width of the model, in nanoseconds.
DurationMax ==
    1000000000

\* Largest of the short Durations (nanoseconds) PollerSpec draws.
MaxShortDuration ==
    4

\* Longest streak a MomentumStrategy is driven to in PollerSpec.
MaxStreak ==
    3

(***************************************************************************)
(* Option values.                                                          *)
(***************************************************************************)
None ==
    <<>>

Some(v) ==
    <<v>>

IsSome(o) ==
    Len(o) = 1

Unwrap(o) ==
    o[1]

\* Option::unwrap_or
UnwrapOr(o, default) ==
    IF IsSome(o) THEN Unwrap(o) ELSE default

(***************************************************************************)
(* Geometry fixtures: two monitors side by side, as in the tests of        *)
(* tracker.rs and state.rs (scaled down), windows and cursor points.       *)
(***************************************************************************)
mon(x, y, w, h) ==
    [x |-> x, y |-> y, w |-> w, h |-> h]

m_a ==
    mon(0, 0, 2, 2)

m_b ==
    mon(2, 0, 3, 2)

AllMonitors ==
    {m_a, m_b}

\* The monitor lists a tracker may have been started with.
MonitorLists ==
    {<<>>, <<m_a>>, <<m_a, m_b>>}

\* Results of platform.cursor_position(): unavailable, on m_a, on m_b.
CursorReadings ==
    {None, Some(<<0, 0>>), Some(<<3, 1>>)}

\* Results of platform.focused_window_bounds(): a window on m_a, one mostly
\* on m_b, one on no monitor, or no focused window.
FocusReadings ==
    {None, Some(mon(0, 0, 1, 1)), Some(mon(1, 0, 3, 1)), Some(mon(6, 0, 1, 1))}

(***************************************************************************)
(* src/monitor/state.rs                                                    *)
(***************************************************************************)
Stamped(monitor, at) ==
    [monitor |-> monitor, at |-> at]

\* InputState::default()
InputStateDefault ==
    [focus |-> None, cursor |-> None]

\* InputState::update_cursor, mutated: re-stamps a re-confirmation.
update_cursor_restamp(s, monitor, at, committed) ==
    IF ~committed
    THEN s
    ELSE [s EXCEPT !.cursor = Some(Stamped(monitor, at))]

\* InputState::update_cursor, mutated: ignores the committed flag.
update_cursor_ungated(s, monitor, at, committed) ==
    LET same == IsSome(s.cursor) /\ Unwrap(s.cursor).monitor = monitor
    IN  IF same
        THEN s
        ELSE [s EXCEPT !.cursor = Some(Stamped(monitor, at))]

update_cursor(s, monitor, at, committed) ==
    IF ~committed
    THEN s
    ELSE LET same == IsSome(s.cursor) /\ Unwrap(s.cursor).monitor = monitor
         IN  IF same
             THEN s
             ELSE [s EXCEPT !.cursor = Some(Stamped(monitor, at))]

update_focus(s, monitor, at) ==
    LET same == IsSome(s.focus) /\ Unwrap(s.focus).monitor = monitor
    IN  IF same
        THEN s
        ELSE [s EXCEPT !.focus = Some(Stamped(monitor, at))]

\* monitor_for_point: the first monitor of the list containing (x, y),
\* half-open on the right and bottom edges.
\* The containment test of monitor_for_point, mutated: the right and bottom
\* edges belong to the monitor.
ContainsPointClosed(m, x, y) ==
    /\ x >= m.x
    /\ x <= m.x + m.w
    /\ y >= m.y
    /\ y <= m.y + m.h

ContainsPoint(m, x, y) ==
    /\ x >= m.x
    /\ x < m.x + m.w
    /\ y >= m.y
    /\ y < m.y + m.h

monitor_for_point(ms, x, y) ==
    LET hits == {i \in 1..Len(ms) : ContainsPoint(ms[i], x, y)}
    IN  IF hits = {}
        THEN None
        ELSE Some(ms[CHOOSE i \in hits : \A j \in hits : i <= j])

\* pick_active_monitor, mutated: focus wins an exact tie.
pick_active_monitor_focus_tie(s, fallback) ==
    IF IsSome(s.cursor) /\ IsSome(s.focus)
    THEN IF Unwrap(s.cursor).at > Unwrap(s.focus).at
         THEN Unwrap(s.cursor).monitor
         ELSE Unwrap(s.focus).monitor
    ELSE IF IsSome(s.cursor)
    THEN Unwrap(s.cursor).monitor
    ELSE IF IsSome(s.focus)
    THEN Unwrap(s.focus).monitor
    ELSE fallback

pick_active_monitor(s, fallback) ==
    IF IsSome(s.cursor) /\ IsSome(s.focus)
    THEN IF Unwrap(s.cursor).at >= Unwrap(s.focus).at
         THEN Unwrap(s.cursor).monitor
         ELSE Unwrap(s.focus).monitor
    ELSE IF IsSome(s.cursor)
    THEN Unwrap(s.cursor).monitor
    ELSE IF IsSome(s.focus)
    THEN Unwrap(s.focus).monitor
    ELSE fallback

\* Bounds::intersect and intersection_area.
Max2(a, b) ==
    IF a >= b THEN a ELSE b

Min2(a, b) ==
    IF a <= b THEN a ELSE b

intersection_area(a, b) ==
    LET left == Max2(a.x, b.x)
        top == Max2(a.y, b.y)
        right == Min2(a.x + a.w, b.x + b.w)
        bottom == Min2(a.y + a.h, b.y + b.h)
        width == right - left
        height == bottom - top
    IN  IF width <= 0 \/ height <= 0
        THEN 0
        ELSE width * height

\* monitor_for_bounds, mutated: the first monitor the window overlaps.
monitor_for_bounds_first(ms, window) ==
    LET hits == {i \in 1..Len(ms) : intersection_area(window, ms[i]) > 0}
    IN  IF hits = {}
        THEN None
        ELSE Some(ms[CHOOSE i \in hits : \A j \in hits : i <= j])

\* monitor_for_bounds: the monitor with the largest positive intersection
\* area; Iterator::max_by returns the last of several maximal elements.
monitor_for_bounds(ms, window) ==
    LET hits == {i \in 1..Len(ms) : intersection_area(window, ms[i]) > 0}
        best == {i \in hits : \A j \in hits :
                    intersection_area(window, ms[i]) >= intersection_area(window, ms[j])}
    IN  IF hits = {}
        THEN None
        ELSE Some(ms[CHOOSE i \in best : \A j \in best : i >= j])


(***************************************************************************)
(* The call guard.update_focus(focus_monitor, now) of poll_tick and        *)
(* force_focus_update passes an Option, while update_focus (state.rs)      *)
(* takes a monitor and Stamped holds a monitor, never "no monitor".  With  *)
(* Some(m) the call is update_focus(m).  With None the source defines no   *)
(* result; the InputState type leaves two outcomes, the field kept as it   *)
(* is or the field cleared, and both are modelled.                         *)
(***************************************************************************)
update_focus_call(s, focus_monitor, at) ==
    IF IsSome(focus_monitor)
    THEN {update_focus(s, Unwrap(focus_monitor), at)}
    ELSE {s, [s EXCEPT !.focus = None]}

(***************************************************************************)
(* StateSpec: the InputState operations applied directly, in any order,    *)
(* with any monitor and any Instant, as the unit tests of state.rs do.     *)
(***************************************************************************)
Stamps ==
    0..MaxStamp

OptMonitors ==
    {None} \cup {Some(m) : m \in AllMonitors}

NoOp ==
    [name |-> "none", monitor |-> None, at |-> 0, committed |-> FALSE,
     pre |-> InputStateDefault, result |-> None]

StateInit ==
    /\ st = InputStateDefault
    /\ op = NoOp

StUpdateCursor ==
    \E m \in AllMonitors, at \in Stamps, c \in BOOLEAN :
        /\ st' = update_cursor(st, m, at, c)
        /\ op' = [name |-> "update_cursor", monitor |-> Some(m), at |-> at,
                  committed |-> c, pre |-> st, result |-> None]
        /\ UNCHANGED trackerVars

StUpdateFocus ==
    \E fm \in OptMonitors, at \in Stamps :
        /\ st' \in update_focus_call(st, fm, at)
        /\ op' = [name |-> "update_focus", monitor |-> fm, at |-> at,
                  committed |-> FALSE, pre |-> st, result |-> None]
        /\ UNCHANGED trackerVars

StPick ==
    \E fallback \in AllMonitors :
        /\ st' = st
        /\ op' = [name |-> "pick", monitor |-> Some(fallback), at |-> 0,
                  committed |-> FALSE, pre |-> st,
                  result |-> Some(pick_active_monitor(st, fallback))]
        /\ UNCHANGED trackerVars


(***************************************************************************)
(* src/monitor/poller.rs.  A Duration is its number of nanoseconds, at     *)
(* most DurationMax (Duration::MAX at the width of the model).             *)
(***************************************************************************)
from_millis(ms) ==
    ms * 1000000

\* Duration::clamp (Ord::clamp), called with lo <= hi throughout.
clamp(v, lo, hi) ==
    IF v < lo THEN lo ELSE IF v > hi THEN hi ELSE v

\* Duration::saturating_mul
saturating_mul(d, k) ==
    IF d > DurationMax \div k THEN DurationMax ELSE d * k

\* Duration * u32 panics ("overflow when multiplying duration by scalar")
\* when the product is no Duration.
mul_overflows(d, k) ==
    d > DurationMax \div k

\* What a call of next_interval yields: an interval, or a panic.
Returned(v) ==
    [panicked |-> FALSE, value |-> v]

Panicked ==
    [panicked |-> TRUE, value |-> 0]

Abs(n) ==
    IF n < 0 THEN -n ELSE n

\* BasicStrategy::next_interval, mutated: the result is clamped to max only.
basic_next_interval_no_floor(current, changed, min, max) ==
    LET next == IF changed THEN current \div 2 ELSE saturating_mul(current, 2)
    IN  IF next > max THEN max ELSE next

\* BasicStrategy::next_interval
basic_next_interval(current, changed, min, max) ==
    LET next == IF changed THEN current \div 2 ELSE saturating_mul(current, 2)
    IN  clamp(next, min, max)

\* MomentumStrategy::next_interval, mutated: a change of direction carries
\* the length of the run before it over into the new streak.
momentum_streak_carried(streak, changed) ==
    IF changed THEN Abs(streak) + 1 ELSE -(Abs(streak) + 1)

\* MomentumStrategy::next_interval: the streak (an i32) after the call.
momentum_streak(streak, changed) ==
    IF changed
    THEN IF streak < 0 THEN 1
         ELSE IF streak = 2147483647 THEN streak ELSE streak + 1
    ELSE IF streak > 0 THEN -1
         ELSE IF streak = -2147483647 - 1 THEN streak ELSE streak - 1

\* MomentumStrategy::next_interval: what the call yields, given the streak
\* before the call.
momentum_next_interval(streak, current, changed, min, max) ==
    LET abs == Max2(Abs(momentum_streak(streak, changed)), 1)
    IN  IF changed
        THEN Returned(clamp(current \div clamp(abs, 2, 8), min, max))
        ELSE IF mul_overflows(current, abs + 1)
        THEN Panicked
        ELSE Returned(clamp((current * (abs + 1)) \div abs, min, max))

\* strategy_from_name (tracker.rs): "momentum" in any letter case selects
\* MomentumStrategy with streak 0, every other name BasicStrategy.
MomentumNames ==
    {"momentum", "Momentum", "MOMENTUM"}

strategy_from_name(name) ==
    IF name \in MomentumNames
    THEN [kind |-> "momentum", streak |-> 0]
    ELSE [kind |-> "basic", streak |-> 0]

\* AdaptivePoller::new; panicked marks a poller whose thread has panicked
\* in a call of tick.
poller_new(min, max, strategy) ==
    [current |-> max, min |-> min, max |-> max, strategy |-> strategy,
     panicked |-> FALSE]

\* self.strategy.next_interval(current, changed, self.min, self.max)
strategy_next_interval(p, current, changed) ==
    IF p.strategy.kind = "momentum"
    THEN momentum_next_interval(p.strategy.streak, current, changed,
                                p.min, p.max)
    ELSE Returned(basic_next_interval(current, changed, p.min, p.max))

\* The strategy after a call of next_interval.
strategy_after(strategy, changed) ==
    IF strategy.kind = "momentum"
    THEN [strategy EXCEPT !.streak = momentum_streak(strategy.streak, changed)]
    ELSE strategy

\* AdaptivePoller::tick: the poller after the call; its current is the
\* interval returned.
poller_tick(p, changed) ==
    LET next == strategy_next_interval(p, p.current, changed)
    IN  IF next.panicked
        THEN [p EXCEPT !.panicked = TRUE,
                       !.strategy = strategy_after(p.strategy, changed)]
        ELSE [p EXCEPT !.current = next.value,
                       !.strategy = strategy_after(p.strategy, changed)]

\* AdaptivePoller::reconfigure, mutated: the interval starts over at max,
\* as in AdaptivePoller::new.
poller_reconfigure_reset(p, min, max, strategy) ==
    [current |-> max, min |-> min, max |-> max, strategy |-> strategy,
     panicked |-> p.panicked]

\* AdaptivePoller::reconfigure, mutated: the interval is left where it
\* was, whatever the new bounds.
poller_reconfigure_unclamped(p, min, max, strategy) ==
    [current |-> p.current, min |-> min, max |-> max,
     strategy |-> strategy, panicked |-> p.panicked]

\* AdaptivePoller::reconfigure
poller_reconfigure(p, min, max, strategy) ==
    [current |-> clamp(p.current, min, max), min |-> min, max |-> max,
     strategy |-> strategy, panicked |-> p.panicked]

(***************************************************************************)
(* PollerSpec: an AdaptivePoller and its strategy driven directly, as the  *)
(* unit tests of poller.rs do.  st is the poller, op the last call.        *)
(***************************************************************************)
\* The Durations drawn: the short ones, the first one whose double is no
\* Duration, and Duration::MAX.
Durations ==
    (0..MaxShortDuration) \cup {DurationMax \div 2 + 1, DurationMax}

\* The bounds <<min, max>> a poller is given: min <= max, both short or
\* both long.
PollerBounds ==
    {b \in Durations \X Durations :
        /\ b[1] <= b[2]
        /\ (b[1] <= MaxShortDuration) <=> (b[2] <= MaxShortDuration)}

StrategyNames ==
    {"basic", "momentum"}

\* The strategy next to which a MomentumStrategy is measured in the tests:
\* a fresh one (MomentumStrategy::new) for a changed call, one that has seen
\* a single changed call for an idle call.
ReferenceStrategy(strategy, changed) ==
    IF changed
    THEN strategy_from_name("momentum")
    ELSE strategy_after(strategy_from_name("momentum"), TRUE)

\* Whether the call keeps the streak within the streaks explored.
StreakExplored(p, changed) ==
    Abs(strategy_after(p.strategy, changed).streak) <= MaxStreak

\* same counts the calls a MomentumStrategy object has seen in a row in
\* the direction of the latest one; none for a strategy just made, and
\* none for BasicStrategy, which keeps no history.
PollerOp(name, changed, current, pre, result, reference, run, same) ==
    [name |-> name, changed |-> changed, current |-> current, pre |-> pre,
     result |-> result, reference |-> reference, run |-> run, same |-> same]

\* The count of same-direction calls once a call with this direction is
\* added to the calls before it.
SameDirection(strategy, last, changed) ==
    IF strategy.kind # "momentum"
    THEN 0
    ELSE IF last.same > 0 /\ last.changed = changed
    THEN last.same + 1
    ELSE 1

\* poller.tick(changed); run follows the test poller_ramps_down_then_up:
\* the first tick after new, a changed one, then idle ticks only.
PlTick ==
    \E changed \in BOOLEAN :
        /\ ~st.panicked
        /\ StreakExplored(st, changed)
        /\ st' = poller_tick(st, changed)
        /\ op' = PollerOp(
                     "tick", changed, st.current, st,
                     strategy_next_interval(st, st.current, changed),
                     Returned(0),
                     IF op.run = "new" /\ changed THEN "first_change"
                     ELSE IF op.run \in {"first_change", "idle"} /\ ~changed
                     THEN "idle"
                     ELSE "other",
                     SameDirection(st.strategy, op, changed))
        /\ UNCHANGED trackerVars

\* strategy.next_interval(current, changed, min, max) with any current,
\* and the same call on the reference strategy.
PlNextInterval ==
    \E current \in Durations, changed \in BOOLEAN :
        /\ ~st.panicked
        /\ StreakExplored(st, changed)
        /\ st' = [st EXCEPT !.strategy = strategy_after(st.strategy, changed)]
        /\ op' = PollerOp(
                     "next_interval", changed, current, st,
                     strategy_next_interval(st, current, changed),
                     strategy_next_interval(
                         [st EXCEPT !.strategy =
                              ReferenceStrategy(st.strategy, changed)],
                         current, changed),
                     "other",
                     SameDirection(st.strategy, op, changed))
        /\ UNCHANGED trackerVars

\* poller.reconfigure(min, max, strategy)
PlReconfigure ==
    \E b \in PollerBounds, name \in StrategyNames :
        /\ ~st.panicked
        /\ st' = poller_reconfigure(st, b[1], b[2], strategy_from_name(name))
        /\ op' = PollerOp("reconfigure", FALSE, st.current, st,
                          Returned(st'.current), Returned(0), "other", 0)
        /\ UNCHANGED trackerVars

(***************************************************************************)
(* MonitorConfig (tracker.rs).                                             *)
(***************************************************************************)
MonitorConfig(min_ms, max_ms, threshold_ms, strategy) ==
    [poll_min_ms |-> min_ms, poll_max_ms |-> max_ms,
     commit_threshold_ms |-> threshold_ms, strategy |-> strategy]

\* MonitorConfig::default()
DefaultPollMinMs ==
    16

DefaultPollMaxMs ==
    500

DefaultCommitThresholdMs ==
    128

MonitorConfigDefault ==
    MonitorConfig(DefaultPollMinMs, DefaultPollMaxMs, DefaultCommitThresholdMs,
                  "basic")

\* MonitorConfig::normalized; a strategy name is blank when trim() leaves
\* nothing of it.
BlankNames ==
    {"", " "}

\* normalized, mutated: with poll_min above poll_max only poll_min is
\* replaced by its default.
normalized_min_only(c) ==
    LET c1 == IF c.poll_min_ms > c.poll_max_ms
              THEN [c EXCEPT !.poll_min_ms = MonitorConfigDefault.poll_min_ms]
              ELSE c
    IN  IF c1.strategy \in BlankNames
        THEN [c1 EXCEPT !.strategy = MonitorConfigDefault.strategy]
        ELSE c1

normalized(c) ==
    LET c1 == IF c.poll_min_ms > c.poll_max_ms
              THEN [c EXCEPT !.poll_min_ms = MonitorConfigDefault.poll_min_ms,
                             !.poll_max_ms = MonitorConfigDefault.poll_max_ms]
              ELSE c
    IN  IF c1.strategy \in BlankNames
        THEN [c1 EXCEPT !.strategy = MonitorConfigDefault.strategy]
        ELSE c1


(***************************************************************************)
(* The Monitor Tracker (tracker.rs): construction.                         *)
(***************************************************************************)
\* The configuration the tracker is started with.
StartConfig ==
    MonitorConfig(1, 2, 2, "basic")

\* What the config file may hold when it is rewritten.
ConfigFiles ==
    {StartConfig, MonitorConfig(1, 2, 1, "")}

\* Locals of poll_loop before its first iteration, started with config.
BgInit(config) ==
    LET active == normalized(config)
    IN  [pc |-> "loop",
         active_config |-> active,
         poller |-> poller_new(from_millis(active.poll_min_ms),
                               from_millis(active.poll_max_ms),
                               strategy_from_name(active.strategy)),
         commit_threshold |-> from_millis(active.commit_threshold_ms),
         last_cursor_pos |-> None,
         monitors |-> <<>>,
         now |-> 0,
         committed |-> FALSE,
         poll_focus |-> FALSE,
         cursor_moved |-> FALSE,
         cursor_monitor |-> None,
         focus_monitor |-> None,
         signal_changed |-> FALSE]

\* The locals of one tick, cleared when the tick ends.
BgEndTick(b) ==
    [b EXCEPT !.monitors = <<>>, !.now = 0, !.committed = FALSE,
              !.poll_focus = FALSE, !.cursor_moved = FALSE,
              !.cursor_monitor = None, !.focus_monitor = None,
              !.signal_changed = FALSE]

\* The calling thread before its first call, and at the start of a call.
\* after_force is the monitor the call before, a force_focus_update, saw.
UiStart(pc, after_force) ==
    [pc |-> pc, op |-> "none", monitors |-> <<>>, now |-> 0,
     cloned |-> InputStateDefault, state |-> InputStateDefault,
     cursor_monitor |-> None, launcher_visible |-> FALSE,
     focus_monitor |-> None, result |-> None, after_force |-> after_force]

\* What a call that has returned leaves in ui: the call, its result and
\* after_force; its other locals only in the runs that keep them to be
\* inspected (keep).
UiReturned(u, keep) ==
    IF keep
    THEN [u EXCEPT !.pc = "idle"]
    ELSE [UiStart("idle", u.after_force) EXCEPT
            !.op = u.op, !.result = u.result,
            !.focus_monitor = IF u.op = "force" THEN u.focus_monitor ELSE None]

\* The platform and clock of a run of the whole tracker: the cursor is on
\* one of the monitors whenever it is queried.
TrackerEnv ==
    [cursor_readings |-> CursorReadings \ {None},
     focus_readings |-> FocusReadings,
     max_time |-> MaxTime, keep_locals |-> FALSE]

\* The platform and clock of a run of the background loop on its own: the
\* cursor may also be unavailable, or on no monitor.
LoopEnv ==
    [cursor_readings |-> CursorReadings \cup {Some(<<5, 0>>)},
     focus_readings |-> FocusReadings,
     max_time |-> MaxLoopTime, keep_locals |-> FALSE]

\* The platform and clock of a run of the calling thread on its own; the
\* locals of a returned call stay readable.
CallEnv ==
    [cursor_readings |-> CursorReadings \cup {Some(<<5, 0>>)},
     focus_readings |-> FocusReadings,
     max_time |-> MaxCallTime, keep_locals |-> TRUE]

\* MonitorTracker::start_with_config
Init ==
    /\ monitors \in MonitorLists
    /\ state = InputStateDefault
    /\ any_visible = FALSE
    /\ state_lock = "free"
    /\ clock = 0
    /\ poll_safe \in BOOLEAN
    /\ focus_calls = 0
    /\ config_file = StartConfig
    /\ env = TrackerEnv
    /\ bg = BgInit(StartConfig)
    /\ ui = UiStart("idle", None)
    /\ st = InputStateDefault
    /\ op = NoOp

(***************************************************************************)
(* The environment: the clock, the threads that show and dismiss the       *)
(* picker, and whoever rewrites the config file.                           *)
(***************************************************************************)
AdvanceClock ==
    /\ clock < env.max_time
    /\ clock' = clock + 1
    /\ UNCHANGED <<monitors, state, any_visible, state_lock, poll_safe,
                   focus_calls, config_file, env, bg, ui, st, op>>

SetVisible ==
    /\ ~any_visible
    /\ any_visible' = TRUE
    /\ UNCHANGED <<monitors, state, state_lock, clock, poll_safe, focus_calls,
                   config_file, env, bg, ui, st, op>>

ClearVisible ==
    /\ any_visible
    /\ any_visible' = FALSE
    /\ UNCHANGED <<monitors, state, state_lock, clock, poll_safe, focus_calls,
                   config_file, env, bg, ui, st, op>>

EditConfig ==
    /\ \E c \in ConfigFiles \ {config_file} : config_file' = c
    /\ UNCHANGED <<monitors, state, any_visible, state_lock, clock, poll_safe,
                   focus_calls, env, bg, ui, st, op>>


(***************************************************************************)
(* poll_loop and poll_tick (tracker.rs), one action per step of the        *)
(* background thread.  A step ends at an access to shared memory: a mutex, *)
(* the visibility flag, the clock.  A guard that is a temporary (lock,     *)
(* clone, drop) is one step, enabled while the mutex is free.  A platform  *)
(* query shares nothing with the other threads and belongs to the step it  *)
(* follows; the focus query is a step of its own.                          *)
(***************************************************************************)
UiUnchanged ==
    UNCHANGED <<ui, st, op>>

\* The config refresh of the loop head: reload, normalize, and reconfigure
\* when the result differs from the active config.
\* The refresh, mutated: the poller is reconfigured whether or not the
\* loaded config differs from the active one.
RefreshConfigAlways(b, file) ==
    LET latest == normalized(file)
    IN  [b EXCEPT
           !.commit_threshold = from_millis(latest.commit_threshold_ms),
           !.poller = poller_reconfigure(
               b.poller,
               from_millis(latest.poll_min_ms),
               from_millis(latest.poll_max_ms),
               strategy_from_name(latest.strategy)),
           !.active_config = latest]

RefreshConfig(b, file) ==
    LET latest == normalized(file)
    IN  IF latest # b.active_config
        THEN [b EXCEPT
                !.commit_threshold = from_millis(latest.commit_threshold_ms),
                !.poller = poller_reconfigure(
                    b.poller,
                    from_millis(latest.poll_min_ms),
                    from_millis(latest.poll_max_ms),
                    strategy_from_name(latest.strategy)),
                !.active_config = latest]
        ELSE b

\* monitors_snapshot.is_empty(), mutated: the loop goes on to sample with
\* an empty list.
EmptyListSampled(ms) ==
    FALSE

\* if monitors_snapshot.is_empty() { sleep(1 s); continue; }
EmptyListRetries(ms) ==
    ms = <<>>

\* One loop head: the refresh when a second has passed since the last one,
\* then monitors_snapshot = monitors.lock().map(|g| g.clone()); with an
\* empty list the thread sleeps a second and starts over.
BgLoopHead ==
    /\ bg.pc = "loop"
    /\ \E refresh \in BOOLEAN :
          LET b == IF refresh THEN RefreshConfig(bg, config_file) ELSE bg
          IN  bg' = IF EmptyListRetries(monitors)
                    THEN b
                    ELSE [b EXCEPT !.monitors = monitors, !.pc = "now"]
    /\ UNCHANGED <<monitors, state, any_visible, state_lock, clock, poll_safe,
                   focus_calls, config_file, env>>
    /\ UiUnchanged

\* now = Instant::now(); committed = poller.current() >= commit_threshold
BgReadNow ==
    /\ bg.pc = "now"
    /\ bg' = [bg EXCEPT !.now = clock,
                        !.committed = (bg.poller.current >= bg.commit_threshold),
                        !.pc = "poll_focus"]
    /\ UNCHANGED <<monitors, state, any_visible, state_lock, clock, poll_safe,
                   focus_calls, config_file, env>>
    /\ UiUnchanged

\* cursor_moved of poll_tick
CursorMoved(cursor_pos, last) ==
    IF IsSome(cursor_pos) /\ IsSome(last)
    THEN \/ Abs(Unwrap(cursor_pos)[1] - Unwrap(last)[1]) > 1
         \/ Abs(Unwrap(cursor_pos)[2] - Unwrap(last)[2]) > 1
    ELSE IsSome(cursor_pos) /\ ~IsSome(last)

\* cursor_pos.and_then(|(x, y)| monitor_for_point(monitors, x, y))
CursorMonitor(ms, cursor_pos) ==
    IF IsSome(cursor_pos)
    THEN monitor_for_point(ms, Unwrap(cursor_pos)[1], Unwrap(cursor_pos)[2])
    ELSE None

\* The focus monitor, mutated: the bounds of the focused window are taken
\* for the monitor it is on.
FocusMonitorWindowBounds(ms, focus_bounds) ==
    focus_bounds

\* focus_bounds.and_then(|wb| monitor_for_bounds(&monitors, &wb))
FocusMonitor(ms, focus_bounds) ==
    IF IsSome(focus_bounds)
    THEN monitor_for_bounds(ms, Unwrap(focus_bounds))
    ELSE None

\* poll_focus = platform.poll_focused_window() || !any_visible.load(), then
\* poll_tick: platform.cursor_position(), cursor_moved, last_cursor_pos and
\* cursor_monitor.  Without poll_focus the focus monitor is None and no
\* focus query is made.
BgSampleCursor ==
    /\ bg.pc = "poll_focus"
    /\ \E cursor_pos \in env.cursor_readings :
          LET poll_focus == poll_safe \/ ~any_visible
          IN  bg' = [bg EXCEPT
                       !.poll_focus = poll_focus,
                       !.cursor_moved = CursorMoved(cursor_pos, bg.last_cursor_pos),
                       !.last_cursor_pos = cursor_pos,
                       !.cursor_monitor = CursorMonitor(bg.monitors, cursor_pos),
                       !.focus_monitor = None,
                       !.pc = IF poll_focus THEN "focus" ELSE "lock_state"]
    /\ UNCHANGED <<monitors, state, any_visible, state_lock, clock, poll_safe,
                   focus_calls, config_file, env>>
    /\ UiUnchanged

\* poll_tick: platform.focused_window_bounds(), made when poll_focus is set.
BgFocusQuery ==
    /\ bg.pc = "focus"
    /\ focus_calls < MaxFocusCalls
    /\ focus_calls' = focus_calls + 1
    /\ \E focus_bounds \in env.focus_readings :
          bg' = [bg EXCEPT
                   !.focus_monitor = FocusMonitor(bg.monitors, focus_bounds),
                   !.pc = "lock_state"]
    /\ UNCHANGED <<monitors, state, any_visible, state_lock, clock, poll_safe,
                   config_file, env>>
    /\ UiUnchanged

\* The Option<Bounds> of a signal: its monitor, if it is set.
SignalMonitor(signal) ==
    IF IsSome(signal) THEN Some(Unwrap(signal).monitor) ELSE None

\* The owner of the InputState mutex between the cursor update and the
\* focus update of poll_tick, mutated: the guard is dropped after the
\* cursor update and the mutex taken again for the focus update.
GuardAfterCursorUpdateDropped ==
    "free"

\* The owner of the InputState mutex between the cursor update and the
\* focus update of poll_tick: guard, taken before both, lives until
\* poll_tick returns.
GuardAfterCursorUpdate ==
    "bg"

\* state.lock(), then: if let Some(monitor) = cursor_monitor { ... }
BgUpdateCursor ==
    /\ bg.pc = "lock_state"
    /\ state_lock = "free"
    /\ state_lock' = GuardAfterCursorUpdate
    /\ LET next == IF IsSome(bg.cursor_monitor)
                   THEN update_cursor(state, Unwrap(bg.cursor_monitor), bg.now,
                                      bg.committed)
                   ELSE state
           changed == /\ IsSome(bg.cursor_monitor)
                      /\ bg.committed
                      /\ SignalMonitor(state.cursor) # SignalMonitor(next.cursor)
       IN  /\ state' = next
           /\ bg' = [bg EXCEPT !.signal_changed = changed,
                               !.pc = "update_focus"]
    /\ UNCHANGED <<monitors, any_visible, clock, poll_safe, focus_calls,
                   config_file, env>>
    /\ UiUnchanged

\* activity, mutated: cursor movement alone is no activity.
TickActivitySignalOnly(cursor_moved, signal_changed) ==
    signal_changed

\* activity = cursor_moved || signal_changed
TickActivity(cursor_moved, signal_changed) ==
    cursor_moved \/ signal_changed

\* guard.update_focus(focus_monitor, now); the guard is dropped on return;
\* poller.tick(tick.activity); sleep(interval); the next iteration.
BgUpdateFocus ==
    /\ bg.pc = "update_focus"
    /\ state_lock = GuardAfterCursorUpdate
    /\ \E next \in update_focus_call(state, bg.focus_monitor, bg.now) :
          LET signal_changed ==
                  \/ bg.signal_changed
                  \/ SignalMonitor(state.focus) # SignalMonitor(next.focus)
          IN  /\ StreakExplored(bg.poller,
                                 TickActivity(bg.cursor_moved, signal_changed))
              /\ state' = next
              /\ LET poller == poller_tick(
                                   bg.poller,
                                   TickActivity(bg.cursor_moved, signal_changed))
                 IN  bg' = [BgEndTick(bg) EXCEPT
                              !.poller = poller,
                              !.pc = IF poller.panicked THEN "panicked"
                                     ELSE "loop"]
    /\ state_lock' = "free"
    /\ UNCHANGED <<monitors, any_visible, clock, poll_safe, focus_calls,
                   config_file, env>>
    /\ UiUnchanged


\* The InputState mutex becomes poisoned: from then on state.lock()
\* returns Err to every caller.
PoisonState ==
    /\ state_lock = "free"
    /\ state_lock' = "poisoned"
    /\ UNCHANGED <<monitors, state, any_visible, clock, poll_safe, focus_calls,
                   config_file, env, bg, ui, st, op>>

\* poll_tick when state.lock() fails: it returns activity false and
\* signal_changed false; then poller.tick(false), the sleep and the next
\* iteration.
BgLockFailed ==
    /\ bg.pc = "lock_state"
    /\ state_lock = "poisoned"
    /\ StreakExplored(bg.poller, FALSE)
    /\ LET poller == poller_tick(bg.poller, FALSE)
       IN  bg' = [BgEndTick(bg) EXCEPT
                    !.poller = poller,
                    !.pc = IF poller.panicked THEN "panicked" ELSE "loop"]
    /\ UNCHANGED <<monitors, state, any_visible, state_lock, clock, poll_safe,
                   focus_calls, config_file, env>>
    /\ UiUnchanged


(***************************************************************************)
(* MonitorTracker::snapshot, one action per step of the calling thread.    *)
(* The locals of a call are in ui; a call that has returned leaves what     *)
(* UiReturned keeps, and ui.op names it.                                   *)
(***************************************************************************)
BgUnchanged ==
    UNCHANGED <<bg, st, op>>

\* The monitor a force_focus_update that has just returned observed.
JustForced ==
    IF ui.op = "force" THEN ui.focus_monitor ELSE None

\* if monitors.len() == 1, mutated: the single monitor takes the fusion
\* path of a longer list.
SingleMonitorFused(ms) ==
    FALSE

\* if monitors.len() == 1 { return Some(ActiveMonitor::new(monitors[0])); }
SingleMonitor(ms) ==
    Len(ms) = 1

\* snapshot() is called: monitors = self.monitors.lock().ok()?.clone();
\* None for an empty list, the only monitor for a list of one.
SnapCloneMonitors ==
    /\ ui.pc = "idle"
    /\ LET u == [UiStart("idle", JustForced) EXCEPT !.monitors = monitors]
       IN  ui' = IF monitors = <<>>
                 THEN UiReturned([u EXCEPT !.result = None, !.op = "snapshot"],
                                 env.keep_locals)
                 ELSE IF SingleMonitor(monitors)
                 THEN UiReturned([u EXCEPT !.result = Some(monitors[1]),
                                           !.op = "snapshot"],
                                 env.keep_locals)
                 ELSE [u EXCEPT !.pc = "s_now"]
    /\ UNCHANGED <<monitors, state, any_visible, state_lock, clock, poll_safe,
                   focus_calls, config_file, env>>
    /\ BgUnchanged

\* now = Instant::now()
SnapReadNow ==
    /\ ui.pc = "s_now"
    /\ ui' = [ui EXCEPT !.now = clock, !.pc = "s_state"]
    /\ UNCHANGED <<monitors, state, any_visible, state_lock, clock, poll_safe,
                   focus_calls, config_file, env>>
    /\ BgUnchanged

\* state.update_cursor(monitor, now, true)
SnapshotCommitted ==
    TRUE

\* The platform queries of snapshot, mutated: the focused window is
\* queried as well, as poll_tick does.
SnapshotQueriesWithFocus ==
    <<"cursor_position", "focused_window_bounds">>

\* The platform queries snapshot makes: self.platform.cursor_position().
SnapshotQueries ==
    <<"cursor_position">>

\* The calls of focused_window_bounds() among the queries.
FocusQueriesIn(queries) ==
    Cardinality({i \in DOMAIN queries : queries[i] = "focused_window_bounds"})

\* self.state.lock().ok()?.clone(), mutated: snapshot works on the locked
\* Input State itself, so what it does to its state is stored.
StateBehindGuard(shared, copy) ==
    copy

\* self.state.lock().ok()?.clone(): the shared Input State once snapshot
\* has worked on its copy.
StateBehindClone(shared, copy) ==
    shared

\* state = self.state.lock().ok()?.clone(): snapshot works on its own copy;
\* self.platform.cursor_position(); a position on a monitor is fed into the
\* copy with update_cursor.
SnapCloneState ==
    /\ ui.pc = "s_state"
    /\ state_lock = "free"
    /\ focus_calls + FocusQueriesIn(SnapshotQueries) <= MaxFocusCalls
    /\ focus_calls' = focus_calls + FocusQueriesIn(SnapshotQueries)
    /\ \E cursor_pos \in env.cursor_readings :
          LET monitor == CursorMonitor(ui.monitors, cursor_pos)
              copy == IF IsSome(monitor)
                      THEN update_cursor(state, Unwrap(monitor),
                                         ui.now, SnapshotCommitted)
                      ELSE state
          IN  /\ ui' = [ui EXCEPT
                         !.cloned = state,
                         !.cursor_monitor = monitor,
                         !.state = copy,
                         !.pc = "s_visible"]
              /\ state' = StateBehindClone(state, copy)
    /\ UNCHANGED <<monitors, any_visible, state_lock, clock, poll_safe,
                   config_file, env>>
    /\ BgUnchanged

\* The focus signal fused by snapshot, mutated: the flag is ignored.
FocusForFusionKept(s, launcher_visible) ==
    s

\* if launcher_visible { state.focus = None; }
FocusForFusion(s, launcher_visible) ==
    IF launcher_visible THEN [s EXCEPT !.focus = None] ELSE s

\* launcher_visible = self.any_visible.load(); the fusion; Some(result).
SnapFuse ==
    /\ ui.pc = "s_visible"
    /\ LET fused == FocusForFusion(ui.state, any_visible)
       IN  /\ ui' = UiReturned(
                     [ui EXCEPT
                        !.launcher_visible = any_visible,
                        !.state = fused,
                        !.result = Some(pick_active_monitor(fused, ui.monitors[1])),
                        !.op = "snapshot"],
                     env.keep_locals)
           /\ state' = StateBehindClone(state, fused)
    /\ UNCHANGED <<monitors, any_visible, state_lock, clock, poll_safe,
                   focus_calls, config_file, env>>
    /\ BgUnchanged

(***************************************************************************)
(* MonitorTracker::force_focus_update                                      *)
(***************************************************************************)
\* force_focus_update() is called: monitors = self.monitors.lock() ... clone(),
\* focus_bounds = self.platform.focused_window_bounds(), focus_monitor.
ForceFocusQuery ==
    /\ ui.pc = "idle"
    /\ focus_calls < MaxFocusCalls
    /\ focus_calls' = focus_calls + 1
    /\ \E focus_bounds \in env.focus_readings :
          ui' = [UiStart("f_update", None) EXCEPT
                   !.monitors = monitors,
                   !.focus_monitor = FocusMonitor(monitors, focus_bounds)]
    /\ UNCHANGED <<monitors, state, any_visible, state_lock, clock, poll_safe,
                   config_file, env>>
    /\ BgUnchanged

\* The write of force_focus_update, mutated: the probe is dropped.
ForceWriteDropped(s, focus_monitor, at) ==
    {s}

\* guard.update_focus(focus_monitor, Instant::now())
ForceWrite(s, focus_monitor, at) ==
    update_focus_call(s, focus_monitor, at)

\* if let Ok(mut guard) = self.state.lock() { ... }: the update under the
\* lock, stamped with the clock read there; the guard is dropped.
ForceUpdate ==
    /\ ui.pc = "f_update"
    /\ state_lock = "free"
    /\ state' \in ForceWrite(state, ui.focus_monitor, clock)
    /\ ui' = UiReturned([ui EXCEPT !.now = clock, !.cloned = state,
                                   !.op = "force"],
                         env.keep_locals)
    /\ UNCHANGED <<monitors, any_visible, state_lock, clock, poll_safe,
                   focus_calls, config_file, env>>
    /\ BgUnchanged

(***************************************************************************)
(* The specifications.                                                     *)
(***************************************************************************)
Next ==
    \/ AdvanceClock
    \/ SetVisible
    \/ ClearVisible
    \/ BgLoopHead
    \/ BgReadNow
    \/ BgSampleCursor
    \/ BgFocusQuery
    \/ BgUpdateCursor
    \/ BgUpdateFocus
    \/ SnapCloneMonitors
    \/ SnapReadNow
    \/ SnapCloneState
    \/ SnapFuse
    \/ ForceFocusQuery
    \/ ForceUpdate

\* The tracker: the background loop, a calling thread and the environment.
Spec ==
    Init /\ [][Next]_vars

\* The background loop with the threads that show and dismiss the picker
\* and rewrite the config file; no caller of snapshot or force_focus_update.
LoopInit ==
    /\ monitors \in MonitorLists
    /\ state = InputStateDefault
    /\ any_visible = FALSE
    /\ state_lock = "free"
    /\ clock = 0
    /\ poll_safe \in BOOLEAN
    /\ focus_calls = 0
    /\ config_file = StartConfig
    /\ env = LoopEnv
    /\ bg = BgInit(StartConfig)
    /\ ui = UiStart("idle", None)
    /\ st = InputStateDefault
    /\ op = NoOp

LoopNext ==
    \/ AdvanceClock
    \/ SetVisible
    \/ ClearVisible
    \/ EditConfig
    \/ BgLoopHead
    \/ BgReadNow
    \/ BgSampleCursor
    \/ BgFocusQuery
    \/ BgUpdateCursor
    \/ BgUpdateFocus

LoopSpec ==
    LoopInit /\ [][LoopNext]_vars

\* The background loop with its failures: the cursor unavailable or on no
\* monitor, no focused window, a poisoned InputState mutex; started with
\* the basic or the momentum strategy.
\* A poll_max_ms so long that a small multiple of the interval is no
\* Duration, as u64::MAX milliseconds are a thousandth of Duration::MAX.
LongPollMs ==
    DurationMax \div 2000000

FaultConfigs ==
    {StartConfig,
     MonitorConfig(LongPollMs, LongPollMs, 2, "momentum")}

FaultEnv ==
    [cursor_readings |-> CursorReadings \cup {Some(<<5, 0>>)},
     focus_readings |-> {None, Some(mon(1, 0, 3, 1))},
     max_time |-> 0, keep_locals |-> FALSE]

FaultInit ==
    /\ monitors = <<m_a, m_b>>
    /\ state = InputStateDefault
    /\ any_visible = FALSE
    /\ state_lock = "free"
    /\ clock = 0
    /\ poll_safe = FALSE
    /\ focus_calls = 0
    /\ \E c \in FaultConfigs :
          /\ config_file = c
          /\ bg = BgInit(c)
    /\ env = FaultEnv
    /\ ui = UiStart("idle", None)
    /\ st = InputStateDefault
    /\ op = NoOp

FaultNext ==
    \/ SetVisible
    \/ ClearVisible
    \/ PoisonState
    \/ BgLoopHead
    \/ BgReadNow
    \/ BgSampleCursor
    \/ BgFocusQuery
    \/ BgUpdateCursor
    \/ BgUpdateFocus
    \/ BgLockFailed

FaultSpec ==
    FaultInit /\ [][FaultNext]_vars

\* The background loop left to itself with the cursor at rest on m_b: no
\* caller, no focused window to find, no change of the config file or of
\* the visibility flag.  The configs are those normalized() lets through,
\* whatever their commit threshold.
RestConfigs ==
    {c \in {MonitorConfig(lo, hi, t, n) :
                lo \in 0..2, hi \in 1..2, t \in 0..3,
                n \in {"basic"}} :
        c.poll_min_ms <= c.poll_max_ms}

RestEnv ==
    [cursor_readings |-> {Some(<<3, 1>>)},
     focus_readings |-> {None},
     max_time |-> 0, keep_locals |-> FALSE]

RestInit ==
    /\ monitors = <<m_a, m_b>>
    /\ state = InputStateDefault
    /\ any_visible = TRUE
    /\ state_lock = "free"
    /\ clock = 0
    /\ poll_safe = FALSE
    /\ focus_calls = 0
    /\ \E c \in RestConfigs :
          /\ config_file = c
          /\ bg = BgInit(c)
    /\ env = RestEnv
    /\ ui = UiStart("idle", None)
    /\ st = InputStateDefault
    /\ op = NoOp

RestNext ==
    \/ BgLoopHead
    \/ BgReadNow
    \/ BgSampleCursor
    \/ BgUpdateCursor
    \/ BgUpdateFocus

\* The thread is scheduled and its sleeps end: the loop keeps taking its
\* next step.
RestSpec ==
    RestInit /\ [][RestNext]_vars /\ WF_vars(RestNext)

\* The InputStates the background loop and force_focus_update can have
\* stored by the time the clock reads now.
StoredSignals(ms, now) ==
    {None} \cup {Some(Stamped(ms[i], t)) : i \in 1..Len(ms), t \in 0..now}

StoredStates(ms, now) ==
    [focus : StoredSignals(ms, now), cursor : StoredSignals(ms, now)]

\* The background loop between two ticks, its commit gate open (the poller
\* at max) or closed (the poller at min, after a tick with activity).
BgBetweenTicks ==
    {BgInit(StartConfig),
     [BgInit(StartConfig) EXCEPT
        !.poller = poller_tick(BgInit(StartConfig).poller, TRUE)]}

\* The calling thread on its own, as in the unit tests of tracker.rs: the
\* tracker is taken with any stored InputState, the background loop between
\* two ticks, and snapshot and force_focus_update are called in any order.
CallInit ==
    /\ monitors \in MonitorLists
    /\ clock \in 0..MaxCallTime
    /\ state \in StoredStates(monitors, clock)
    /\ any_visible \in BOOLEAN
    /\ state_lock = "free"
    /\ poll_safe = FALSE
    /\ focus_calls = 0
    /\ config_file = StartConfig
    /\ env = CallEnv
    /\ bg \in BgBetweenTicks
    /\ ui = UiStart("idle", None)
    /\ st = InputStateDefault
    /\ op = NoOp

CallNext ==
    \/ AdvanceClock
    \/ SetVisible
    \/ ClearVisible
    \/ SnapCloneMonitors
    \/ SnapReadNow
    \/ SnapCloneState
    \/ SnapFuse
    \/ ForceFocusQuery
    \/ ForceUpdate

CallSpec ==
    CallInit /\ [][CallNext]_vars

StateNext ==
    \/ StUpdateCursor
    \/ StUpdateFocus
    \/ StPick

StateSpecInit ==
    /\ monitors = <<>>
    /\ state = InputStateDefault
    /\ any_visible = FALSE
    /\ state_lock = "free"
    /\ clock = 0
    /\ poll_safe = TRUE
    /\ focus_calls = 0
    /\ config_file = StartConfig
    /\ env = TrackerEnv
    /\ bg = BgInit(StartConfig)
    /\ ui = UiStart("idle", None)
    /\ StateInit

\* The InputState operations on their own.
StateSpec ==
    StateSpecInit /\ [][StateNext]_vars

PollerInit ==
    /\ monitors = <<>>
    /\ state = InputStateDefault
    /\ any_visible = FALSE
    /\ state_lock = "free"
    /\ clock = 0
    /\ poll_safe = TRUE
    /\ focus_calls = 0
    /\ config_file = StartConfig
    /\ env = TrackerEnv
    /\ bg = BgInit(StartConfig)
    /\ ui = UiStart("idle", None)
    \* AdaptivePoller::new(min, max, strategy)
    /\ \E b \in PollerBounds, name \in StrategyNames :
          /\ st = poller_new(b[1], b[2], strategy_from_name(name))
          /\ op = PollerOp("new", FALSE, b[2], st, Returned(b[2]),
                           Returned(b[2]), "new", 0)

PollerNext ==
    \/ PlTick
    \/ PlNextInterval
    \/ PlReconfigure

\* The poller and its strategies on their own.
PollerSpec ==
    PollerInit /\ [][PollerNext]_vars

\* IdleSpec: a poller with short bounds ticked with any flags, then with
\* idle ticks only, as the loop does once nothing changes any more.  The
\* run of idle ticks goes on as long as current is below max.
\* From an interval above zero the run is at max before the streak leaves
\* the streaks explored; at zero a MomentumStrategy counts its streak down
\* for as long as it is ticked, so the pollers with min = 0 are followed
\* with BasicStrategy, which keeps no history.
IdleBounds ==
    {b \in PollerBounds : b[2] <= MaxShortDuration}

IdleInit ==
    /\ monitors = <<>>
    /\ state = InputStateDefault
    /\ any_visible = FALSE
    /\ state_lock = "free"
    /\ clock = 0
    /\ poll_safe = TRUE
    /\ focus_calls = 0
    /\ config_file = StartConfig
    /\ env = TrackerEnv
    /\ bg = BgInit(StartConfig)
    /\ ui = UiStart("idle", None)
    /\ \E b \in IdleBounds, name \in StrategyNames :
          /\ (name = "momentum" => b[1] > 0)
          /\ st = poller_new(b[1], b[2], strategy_from_name(name))
          /\ op = PollerOp("new", FALSE, b[2], st, Returned(b[2]),
                           Returned(b[2]), "new", 0)

\* poller.tick(changed) before the run of idle ticks has begun.
IdTick ==
    \E changed \in BOOLEAN :
        /\ op.name \in {"new", "tick"}
        /\ ~st.panicked
        /\ StreakExplored(st, changed)
        /\ st' = poller_tick(st, changed)
        /\ op' = PollerOp("tick", changed, st.current, st,
                          strategy_next_interval(st, st.current, changed),
                          Returned(0), "other", 0)
        /\ UNCHANGED trackerVars

\* poller.tick(false), one tick of the run of idle ticks; same is the
\* parity of the ticks of the run, which tells a tick that returns the
\* interval it was given from no tick at all.
IdIdleTick ==
    /\ ~st.panicked
    /\ st.current < st.max
    /\ StreakExplored(st, FALSE)
    /\ st' = poller_tick(st, FALSE)
    /\ op' = PollerOp("idle", FALSE, st.current, st,
                      strategy_next_interval(st, st.current, FALSE),
                      Returned(0), "idle",
                      IF op.name = "idle" THEN 1 - op.same ELSE 0)
    /\ UNCHANGED trackerVars

IdleNext ==
    \/ IdTick
    \/ IdIdleTick

IdleSpec ==
    IdleInit /\ [][IdleNext]_vars /\ WF_vars(IdIdleTick)

(***************************************************************************)
(* monitor_for_point and monitor_for_bounds on their own, over monitor     *)
(* lists whose rectangles may touch, overlap or repeat.                    *)
(***************************************************************************)
GeomMax ==
    2

GeomRects ==
    {mon(x, y, w, h) : x \in 0..GeomMax, y \in 0..1, w \in 1..2, h \in 1..2}

GeomMonitorLists ==
    {<<>>} \cup {<<a>> : a \in GeomRects}
           \cup {<<a, b>> : a \in GeomRects, b \in GeomRects}

\* Window rectangles: empty ones and ones that reach past every monitor
\* included.
GeomWindows ==
    {mon(x, y, w, h) : x \in {0, 1, GeomMax + 3}, y \in 0..1,
                       w \in {0, 1, 3}, h \in {0, 2}}

GeomPoints ==
    (0..(GeomMax + 2)) \X (0..3)

GeomOp(name, arg, result) ==
    [name |-> name, arg |-> arg, result |-> result]

GeomInit ==
    /\ monitors = <<>>
    /\ state = InputStateDefault
    /\ any_visible = FALSE
    /\ state_lock = "free"
    /\ clock = 0
    /\ poll_safe = TRUE
    /\ focus_calls = 0
    /\ config_file = StartConfig
    /\ env = TrackerEnv
    /\ bg = BgInit(StartConfig)
    /\ ui = UiStart("idle", None)
    /\ st \in GeomMonitorLists
    /\ op = GeomOp("none", None, None)

GmMonitorForPoint ==
    /\ \E p \in GeomPoints :
          op' = GeomOp("monitor_for_point", p, monitor_for_point(st, p[1], p[2]))
    /\ UNCHANGED <<st, trackerVars>>

GmMonitorForBounds ==
    /\ \E window \in GeomWindows :
          op' = GeomOp("monitor_for_bounds", window,
                       monitor_for_bounds(st, window))
    /\ UNCHANGED <<st, trackerVars>>

GeomNext ==
    \/ GmMonitorForPoint
    \/ GmMonitorForBounds

GeomSpec ==
    GeomInit /\ [][GeomNext]_vars

(***************************************************************************)
(* The configuration as poll_loop takes it in: at its start and at each    *)
(* refresh, over valid and invalid files.                                  *)
(***************************************************************************)
ConfigMillis ==
    {1, 2, DefaultPollMaxMs}

ConfigThresholds ==
    {1, DefaultCommitThresholdMs}

ConfigStrategyNames ==
    BlankNames \cup {"momentum", "other"}

\* The MonitorConfig values a file, or the caller of start_with_config, can
\* hand to poll_loop.
ConfigInputs ==
    {MonitorConfig(lo, hi, t, n) :
        lo \in ConfigMillis, hi \in ConfigMillis,
        t \in ConfigThresholds, n \in ConfigStrategyNames}

\* What poll_loop did with a configuration: the raw value, its normalized
\* form, and the bounds handed to AdaptivePoller::new or reconfigure (None
\* when the refresh found nothing new).
ConfigOp(name, raw, latest, passed) ==
    [name |-> name, raw |-> raw, latest |-> latest, passed |-> passed]

PassedBounds(c) ==
    Some(<<from_millis(c.poll_min_ms), from_millis(c.poll_max_ms)>>)

ConfigInit ==
    /\ monitors = <<>>
    /\ state = InputStateDefault
    /\ any_visible = FALSE
    /\ state_lock = "free"
    /\ clock = 0
    /\ poll_safe = TRUE
    /\ focus_calls = 0
    /\ env = TrackerEnv
    /\ ui = UiStart("idle", None)
    /\ \E c \in ConfigInputs :
          /\ config_file = c
          /\ bg = BgInit(c)
          /\ st = BgInit(c)
          /\ op = ConfigOp("new", c, normalized(c),
                           PassedBounds(normalized(c)))

\* The refresh at the loop head, a second after the last one.
CfRefresh ==
    /\ \E file \in ConfigInputs :
          LET latest == normalized(file)
          IN  /\ st' = RefreshConfig(st, file)
              /\ op' = ConfigOp("refresh", file, latest,
                                IF latest # st.active_config
                                THEN PassedBounds(latest)
                                ELSE None)
    /\ UNCHANGED trackerVars

ConfigNext ==
    CfRefresh

ConfigSpec ==
    ConfigInit /\ [][ConfigNext]_vars

(***************************************************************************)
(* Config refreshes between ticks of the poller: what a refresh replaces   *)
(* and what it leaves alone.                                               *)
(***************************************************************************)
\* Files that differ from one another in the threshold only, in the
\* bounds, in the strategy, in the spelling of its name; one is invalid.
RefreshFiles ==
    {MonitorConfig(1, 4, 2, "momentum"),
     MonitorConfig(1, 4, 1, "momentum"),
     MonitorConfig(1, 2, 2, "momentum"),
     MonitorConfig(1, 4, 2, "Momentum"),
     MonitorConfig(2, 4, 2, "basic"),
     MonitorConfig(4, 2, 2, " ")}

RefreshOp(name, file, latest, pre) ==
    [name |-> name, file |-> file, latest |-> latest, pre |-> pre]

RefreshInit ==
    /\ monitors = <<>>
    /\ state = InputStateDefault
    /\ any_visible = FALSE
    /\ state_lock = "free"
    /\ clock = 0
    /\ poll_safe = TRUE
    /\ focus_calls = 0
    /\ env = TrackerEnv
    /\ ui = UiStart("idle", None)
    /\ \E c \in RefreshFiles :
          /\ config_file = c
          /\ bg = BgInit(c)
          /\ st = BgInit(c)
          /\ op = RefreshOp("new", c, normalized(c), BgInit(c))

\* The refresh at the loop head.
RfRefresh ==
    /\ \E file \in RefreshFiles :
          /\ st' = RefreshConfig(st, file)
          /\ op' = RefreshOp("refresh", file, normalized(file), st)
    /\ UNCHANGED trackerVars

\* poller.tick(activity) at the end of an iteration.
RfTick ==
    /\ \E activity \in BOOLEAN :
          /\ ~st.poller.panicked
          /\ StreakExplored(st.poller, activity)
          /\ st' = [st EXCEPT !.poller = poller_tick(@, activity)]
          /\ op' = RefreshOp("tick", st.active_config, st.active_config, st)
    /\ UNCHANGED trackerVars

RefreshNext ==
    \/ RfRefresh
    \/ RfTick

RefreshSpec ==
    RefreshInit /\ [][RefreshNext]_vars

(***************************************************************************)
(* The order in which the tracker's functions take the two mutexes and     *)
(* call the platform (tracker.rs), one instruction per lock, unlock and    *)
(* platform query; the computations in between are single steps.           *)
(***************************************************************************)
Ins(kind, what) ==
    [kind |-> kind, what |-> what]

\* poll_tick, mutated: the InputState mutex is taken before the platform is
\* queried.
poll_tick_program_locked_early ==
    << Ins("lock", "state"),
       Ins("query", "cursor_position"),
       Ins("query", "focused_window_bounds"),
       Ins("step", "update_cursor_and_focus"),
       Ins("unlock", "state") >>

\* poll_tick: both queries, then state.lock(), the two updates, and the
\* guard dropped on return.
poll_tick_program ==
    << Ins("query", "cursor_position"),
       Ins("query", "focused_window_bounds"),
       Ins("lock", "state"),
       Ins("step", "update_cursor_and_focus"),
       Ins("unlock", "state") >>

\* One iteration of poll_loop: the monitor list is cloned under its mutex,
\* whose guard ends with the closure; then now, committed and poll_focus,
\* poll_tick, poller.tick and the sleep.
poll_loop_program ==
    << Ins("lock", "monitors"),
       Ins("unlock", "monitors"),
       Ins("step", "read_clock_and_flag") >>
    \o poll_tick_program
    \o << Ins("step", "tick_and_sleep") >>

\* snapshot(): each guard is a temporary of its let statement.
snapshot_program ==
    << Ins("lock", "monitors"),
       Ins("unlock", "monitors"),
       Ins("step", "read_clock"),
       Ins("lock", "state"),
       Ins("unlock", "state"),
       Ins("query", "cursor_position"),
       Ins("step", "fuse") >>

\* force_focus_update(), mutated: the guard of the monitor list is kept
\* until the function returns.
force_focus_update_program_nested ==
    << Ins("lock", "monitors"),
       Ins("query", "focused_window_bounds"),
       Ins("lock", "state"),
       Ins("step", "update_focus"),
       Ins("unlock", "state"),
       Ins("unlock", "monitors") >>

\* force_focus_update()
force_focus_update_program ==
    << Ins("lock", "monitors"),
       Ins("unlock", "monitors"),
       Ins("query", "focused_window_bounds"),
       Ins("lock", "state"),
       Ins("step", "update_focus"),
       Ins("unlock", "state") >>

Program(name) ==
    CASE name = "poll_loop" -> poll_loop_program
      [] name = "snapshot" -> snapshot_program
      [] name = "force_focus_update" -> force_focus_update_program
      [] OTHER -> <<>>

\* A thread: the function it runs, its next instruction, and whether it is
\* inside a platform query that has not returned.
LkThread(prog, pc, in_query) ==
    [prog |-> prog, pc |-> pc, in_query |-> in_query]

LkNextIns(t) ==
    Program(t.prog)[t.pc]

LkRunning(t) ==
    t.pc \in 1..Len(Program(t.prog))

\* The mutexes a thread holds.
LkHeld(s, who) ==
    {l \in DOMAIN s.owner : s.owner[l] = who}

\* The thread after its instruction: poll_loop starts its next iteration,
\* a call returns.
LkAdvance(t) ==
    IF t.pc < Len(Program(t.prog))
    THEN LkThread(t.prog, t.pc + 1, FALSE)
    ELSE IF t.prog = "poll_loop"
         THEN LkThread("poll_loop", 1, FALSE)
         ELSE LkThread("idle", 1, FALSE)

LkOp(who, ins, held) ==
    [thread |-> who, ins |-> ins, held |-> held]

LkInit ==
    /\ monitors = <<>>
    /\ state = InputStateDefault
    /\ any_visible = FALSE
    /\ state_lock = "free"
    /\ clock = 0
    /\ poll_safe = TRUE
    /\ focus_calls = 0
    /\ config_file = StartConfig
    /\ env = TrackerEnv
    /\ bg = BgInit(StartConfig)
    /\ ui = UiStart("idle", None)
    /\ st = [owner |-> [monitors |-> "free", state |-> "free"],
             bg |-> LkThread("poll_loop", 1, FALSE),
             ui |-> LkThread("idle", 1, FALSE)]
    /\ op = LkOp("none", Ins("step", "start"), {})

\* The UI thread calls snapshot() or force_focus_update().
LkCall ==
    /\ st.ui.prog = "idle"
    /\ \E name \in {"snapshot", "force_focus_update"} :
          /\ st' = [st EXCEPT !.ui = LkThread(name, 1, FALSE)]
          /\ op' = LkOp("ui", Ins("call", name), LkHeld(st, "ui"))
    /\ UNCHANGED trackerVars

\* Mutex::lock: the thread waits until the mutex is free.
LkLock(who) ==
    /\ LkRunning(st[who])
    /\ LkNextIns(st[who]).kind = "lock"
    /\ LET l == LkNextIns(st[who]).what
       IN  /\ st.owner[l] = "free"
           /\ st' = [st EXCEPT !.owner[l] = who, ![who] = LkAdvance(@)]
           /\ op' = LkOp(who, LkNextIns(st[who]), LkHeld(st, who))
    /\ UNCHANGED trackerVars

\* The guard is dropped.
LkUnlock(who) ==
    /\ LkRunning(st[who])
    /\ LkNextIns(st[who]).kind = "unlock"
    /\ LET l == LkNextIns(st[who]).what
       IN  /\ st' = [st EXCEPT !.owner[l] = "free", ![who] = LkAdvance(@)]
           /\ op' = LkOp(who, LkNextIns(st[who]), LkHeld(st, who))
    /\ UNCHANGED trackerVars

\* A computation that touches neither a mutex nor the platform.
LkStep(who) ==
    /\ LkRunning(st[who])
    /\ LkNextIns(st[who]).kind = "step"
    /\ st' = [st EXCEPT ![who] = LkAdvance(@)]
    /\ op' = LkOp(who, LkNextIns(st[who]), LkHeld(st, who))
    /\ UNCHANGED trackerVars

\* The thread enters a platform query; the query may never return.
LkQueryBegin(who) ==
    /\ LkRunning(st[who])
    /\ LkNextIns(st[who]).kind = "query"
    /\ ~st[who].in_query
    /\ st' = [st EXCEPT ![who].in_query = TRUE]
    /\ op' = LkOp(who, LkNextIns(st[who]), LkHeld(st, who))
    /\ UNCHANGED trackerVars

\* The platform query returns.
LkQueryReturn(who) ==
    /\ LkRunning(st[who])
    /\ st[who].in_query
    /\ st' = [st EXCEPT ![who] = LkAdvance(@)]
    /\ op' = LkOp(who, Ins("return", LkNextIns(st[who]).what),
                  LkHeld(st, who))
    /\ UNCHANGED trackerVars

\* poll_tick with poll_focus false: focused_window_bounds is not called.
LkSkipFocusQuery ==
    /\ st.bg.prog = "poll_loop"
    /\ LkRunning(st.bg)
    /\ LkNextIns(st.bg) = Ins("query", "focused_window_bounds")
    /\ ~st.bg.in_query
    /\ st' = [st EXCEPT !.bg = LkAdvance(@)]
    /\ op' = LkOp("bg", Ins("skip", "focused_window_bounds"),
                  LkHeld(st, "bg"))
    /\ UNCHANGED trackerVars

\* An early return once the monitor list is cloned: snapshot() with at most
\* one monitor; poll_loop with none sleeps and starts over.
LkEarlyReturn(who) ==
    /\ st[who].prog \in {"snapshot", "poll_loop"}
    /\ st[who].pc = 3
    /\ st' = [st EXCEPT ![who] =
                 LkAdvance(LkThread(@.prog, Len(Program(@.prog)), FALSE))]
    /\ op' = LkOp(who, Ins("return", st[who].prog), LkHeld(st, who))
    /\ UNCHANGED trackerVars

LkThreads ==
    {"bg", "ui"}

LockNext ==
    \/ LkCall
    \/ \E who \in LkThreads : LkLock(who)
    \/ \E who \in LkThreads : LkUnlock(who)
    \/ \E who \in LkThreads : LkStep(who)
    \/ \E who \in LkThreads : LkQueryBegin(who)
    \/ \E who \in LkThreads : LkQueryReturn(who)
    \/ LkSkipFocusQuery
    \/ \E who \in LkThreads : LkEarlyReturn(who)

\* The background loop and one caller, reduced to their locks and queries.
LockSpec ==
    LkInit /\ [][LockNext]_vars

(***************************************************************************)
(* WindowDelegate (src/delegate): the picker's window list and its         *)
(* selection.  selected_index is an Option<usize> counted from 0, so the   *)
(* selected window is windows[ix + 1] of the sequence.                     *)
(***************************************************************************)
MaxWindows ==
    3

MaxColumns ==
    4

WindowInfo(id, app_name, is_minimized) ==
    [id |-> id, app_name |-> app_name, is_minimized |-> is_minimized]

\* The windows the platform may list: ids 1..MaxWindows, the first two of
\* one app, none minimized.
OpenWindow(id) ==
    WindowInfo(id, IF id <= 2 THEN "term" ELSE "mail", FALSE)

AppNames ==
    {"term", "mail"}

\* platform::get_open_windows(): any list of distinct windows.
WindowLists ==
    {ws \in UNION {[1..n -> {OpenWindow(id) : id \in 1..MaxWindows}] :
                       n \in 0..MaxWindows} :
        \A i, j \in DOMAIN ws : i # j => ws[i].id # ws[j].id}

WindowDelegate(windows, selected_index) ==
    [windows |-> windows, selected_index |-> selected_index]

\* WindowDelegate::new_with_previews
new_with_previews(windows) ==
    WindowDelegate(windows, IF windows = <<>> THEN None ELSE Some(0))

\* WindowDelegate::set_windows, mutated: the selection kept is not brought
\* back into the new list.
set_windows_index_kept(d, windows, reset_selection) ==
    IF windows = <<>>
    THEN WindowDelegate(windows, None)
    ELSE IF reset_selection
    THEN WindowDelegate(windows, Some(0))
    ELSE WindowDelegate(windows, Some(UnwrapOr(d.selected_index, 0)))

\* WindowDelegate::set_windows
set_windows(d, windows, reset_selection) ==
    IF windows = <<>>
    THEN WindowDelegate(windows, None)
    ELSE IF reset_selection
    THEN WindowDelegate(windows, Some(0))
    ELSE WindowDelegate(
             windows,
             Some(Min2(UnwrapOr(d.selected_index, 0), Len(windows) - 1)))

\* WindowDelegate::remove_window
remove_window(d, window_id) ==
    LET Keep(w) == w.id # window_id
    IN  set_windows(d, SelectSeq(d.windows, Keep), FALSE)

\* WindowDelegate::remove_app_windows
remove_app_windows(d, app_name) ==
    LET Keep(w) == w.app_name # app_name
    IN  set_windows(d, SelectSeq(d.windows, Keep), FALSE)

\* WindowDelegate::mark_minimized: the window, marked, goes to the end.
mark_minimized(d, window_id) ==
    LET Keep(w) == w.id # window_id
        Hit(w) == w.id = window_id
        reordered == SelectSeq(d.windows, Keep)
        hits == SelectSeq(d.windows, Hit)
    IN  set_windows(
            d,
            IF hits = <<>>
            THEN reordered
            ELSE Append(reordered,
                        [hits[Len(hits)] EXCEPT !.is_minimized = TRUE]),
            FALSE)

\* WindowDelegate::select_next
select_next(d) ==
    IF d.windows = <<>>
    THEN d
    ELSE [d EXCEPT !.selected_index =
              Some((UnwrapOr(@, 0) + 1) % Len(d.windows))]

\* WindowDelegate::select_prev
select_prev(d) ==
    IF d.windows = <<>>
    THEN d
    ELSE LET current == UnwrapOr(d.selected_index, 0)
         IN  [d EXCEPT !.selected_index =
                 Some(IF current = 0 THEN Len(d.windows) - 1
                      ELSE current - 1)]

GridDirections ==
    {"Left", "Right", "Up", "Down"}

\* WindowDelegate::move_in_grid
move_in_grid(d, direction, columns) ==
    LET total == Len(d.windows)
        cols == Min2(Max2(columns, 1), total)
        rows == (total + cols - 1) \div cols
        current == Min2(UnwrapOr(d.selected_index, 0), Max2(total - 1, 0))
        row == current \div cols
        col == current % cols
        row_start(r) == r * cols
        row_end(r) == Min2((r + 1) * cols, total)
        next ==
            CASE direction = "Left" ->
                     IF current > row_start(row) THEN current - 1 ELSE current
              [] direction = "Right" ->
                     IF current + 1 < row_end(row) THEN current + 1
                     ELSE current
              [] direction = "Up" ->
                     IF row = 0 THEN current
                     ELSE row_start(row - 1)
                          + Min2(col, row_end(row - 1) - row_start(row - 1) - 1)
              [] OTHER ->
                     IF row + 1 >= rows THEN current
                     ELSE row_start(row + 1)
                          + Min2(col, row_end(row + 1) - row_start(row + 1) - 1)
    IN  IF total = 0
        THEN d
        ELSE [d EXCEPT !.selected_index = Some(next)]

\* activate_selected: nothing without a selection; &self.windows[ix]
\* panics for an index outside the list; otherwise the window activated.
activate_selected(d) ==
    IF ~IsSome(d.selected_index)
    THEN [activated |-> None, panicked |-> FALSE]
    ELSE IF Unwrap(d.selected_index) \notin 0..(Len(d.windows) - 1)
    THEN [activated |-> None, panicked |-> TRUE]
    ELSE [activated |-> Some(d.windows[Unwrap(d.selected_index) + 1].id),
          panicked |-> FALSE]

\* DelegateSpec: a WindowDelegate driven through its operations; st is the
\* delegate, op the last call with the delegate it was applied to.
DelegateOp(name, pre, result) ==
    [name |-> name, pre |-> pre, result |-> result]

NoActivation ==
    [activated |-> None, panicked |-> FALSE]

DelegateInit ==
    /\ monitors = <<>>
    /\ state = InputStateDefault
    /\ any_visible = FALSE
    /\ state_lock = "free"
    /\ clock = 0
    /\ poll_safe = TRUE
    /\ focus_calls = 0
    /\ config_file = StartConfig
    /\ env = TrackerEnv
    /\ bg = BgInit(StartConfig)
    /\ ui = UiStart("idle", None)
    /\ \E windows \in WindowLists :
          /\ st = new_with_previews(windows)
          /\ op = DelegateOp("new_with_previews", st, NoActivation)

DgSetWindows ==
    \E windows \in WindowLists, reset_selection \in BOOLEAN :
        /\ st' = set_windows(st, windows, reset_selection)
        /\ op' = DelegateOp("set_windows", st, NoActivation)
        /\ UNCHANGED trackerVars

DgRemoveWindow ==
    \E window_id \in 1..MaxWindows :
        /\ st' = remove_window(st, window_id)
        /\ op' = DelegateOp("remove_window", st, NoActivation)
        /\ UNCHANGED trackerVars

DgRemoveAppWindows ==
    \E app_name \in AppNames :
        /\ st' = remove_app_windows(st, app_name)
        /\ op' = DelegateOp("remove_app_windows", st, NoActivation)
        /\ UNCHANGED trackerVars

DgMarkMinimized ==
    \E window_id \in 1..MaxWindows :
        /\ st' = mark_minimized(st, window_id)
        /\ op' = DelegateOp("mark_minimized", st, NoActivation)
        /\ UNCHANGED trackerVars

DgSelectNext ==
    /\ st' = select_next(st)
    /\ op' = DelegateOp("select_next", st, NoActivation)
    /\ UNCHANGED trackerVars

DgSelectPrev ==
    /\ st' = select_prev(st)
    /\ op' = DelegateOp("select_prev", st, NoActivation)
    /\ UNCHANGED trackerVars

\* select_left, select_right, select_up, select_down
DgMoveInGrid ==
    \E direction \in GridDirections, columns \in 0..MaxColumns :
        /\ st' = move_in_grid(st, direction, columns)
        /\ op' = DelegateOp("move_in_grid", st, NoActivation)
        /\ UNCHANGED trackerVars

\* activate_selected reads the delegate; the picker is dismissed.
DgActivateSelected ==
    /\ st' = st
    /\ op' = DelegateOp("activate_selected", st, activate_selected(st))
    /\ UNCHANGED trackerVars

DelegateNext ==
    \/ DgSetWindows
    \/ DgRemoveWindow
    \/ DgRemoveAppWindows
    \/ DgMarkMinimized
    \/ DgSelectNext
    \/ DgSelectPrev
    \/ DgMoveInGrid
    \/ DgActivateSelected

DelegateSpec ==
    DelegateInit /\ [][DelegateNext]_vars

(***************************************************************************)
(* resolve_monitors (tracker.rs): the monitor list a tracker is started    *)
(* with, per target_os of the build.                                       *)
(***************************************************************************)
TargetOs ==
    {"macos", "linux", "windows"}

\* What platform.physical_monitors() may report.
NativeLists ==
    {<<>>, <<m_a>>, <<m_b>>, <<m_a, m_b>>, <<m_b, m_a>>}

\* What cx.displays() may report, in its own coordinates.
GenericLists ==
    {<<>>, <<m_a>>, <<mon(0, 0, 1, 1)>>, <<m_a, m_b>>,
     <<mon(0, 0, 1, 1), mon(1, 0, 2, 1)>>}

\* resolve_monitors, mutated: the native list, when longer than one, goes
\* first on every platform that has one.
resolve_monitors_native_first(target_os, native, generic) ==
    IF target_os \in {"macos", "linux"} /\ Len(native) > 1
    THEN native
    ELSE generic

\* resolve_monitors: the cfg(target_os = "macos") block, cx.displays(), the
\* cfg(target_os = "linux") block, and the generic list as it is.
resolve_monitors(target_os, native, generic) ==
    IF target_os = "macos" /\ Len(native) > 1
    THEN native
    ELSE IF Len(generic) > 1
    THEN generic
    ELSE IF target_os = "linux" /\ Len(native) > 1
    THEN native
    ELSE generic

\* ResolveSpec: st is the build and what the two queries report, and
\* whether the tracker has been started.
ResolveInit ==
    /\ monitors = <<>>
    /\ state = InputStateDefault
    /\ any_visible = FALSE
    /\ state_lock = "free"
    /\ clock = 0
    /\ poll_safe = TRUE
    /\ focus_calls = 0
    /\ config_file = StartConfig
    /\ env = TrackerEnv
    /\ bg = BgInit(StartConfig)
    /\ ui = UiStart("idle", None)
    /\ \E target_os \in TargetOs, native \in NativeLists,
          generic \in GenericLists :
          st = [target_os |-> target_os, native |-> native,
                generic |-> generic, started |-> FALSE]
    /\ op = [name |-> "none"]

\* MonitorTracker::start_with_config: monitors = resolve_monitors(...)
RsStartWithConfig ==
    /\ ~st.started
    /\ monitors' = resolve_monitors(st.target_os, st.native, st.generic)
    /\ st' = [st EXCEPT !.started = TRUE]
    /\ op' = [name |-> "start_with_config"]
    /\ UNCHANGED <<state, any_visible, state_lock, clock, poll_safe,
                   focus_calls, config_file, env, bg, ui>>

ResolveNext ==
    RsStartWithConfig

ResolveSpec ==
    ResolveInit /\ [][ResolveNext]_vars

(***************************************************************************)
(* The picker window and the PICKER_VISIBLE flag (src/picker/mod.rs,       *)
(* src/app, src/delegate/activation.rs).  st holds current (whether a      *)
(* picker window handle is kept), on_screen (whether that window is        *)
(* shown), the flag, the view's action_mode and _alt_poll_task, and the    *)
(* view's delegate; op is the last call or event and the path it took.     *)
(***************************************************************************)
ActionModes ==
    {"Sticky", "HoldToSwitch"}

Picker(current, on_screen, flag, action_mode, alt_poll_task, delegate) ==
    [current |-> current, on_screen |-> on_screen,
     picker_visible |-> flag, action_mode |-> action_mode,
     alt_poll_task |-> alt_poll_task, delegate |-> delegate]

\* run_app before the first Show: current is None, PICKER_VISIBLE false.
PickerStart ==
    Picker(FALSE, FALSE, FALSE, "HoldToSwitch", FALSE,
           new_with_previews(<<>>))

PickerOp(name, path) ==
    [name |-> name, path |-> path]

\* The windows open_picker finds: the first so many of the open windows.
PickerWindowLists ==
    {ws \in WindowLists : \A i \in DOMAIN ws : ws[i].id = i}

\* platform::dismiss_picker(window): the window leaves the screen, its
\* handle stays in current.
dismiss_picker(p) ==
    [p EXCEPT !.on_screen = FALSE]

\* The fast path of open_picker: the view cycles its selection when it is
\* in hold-to-switch mode, its Alt poll task is alive and Alt is held.
open_picker_cycles(p, handle_alive, alt_held) ==
    /\ p.current
    /\ handle_alive
    /\ p.action_mode = "HoldToSwitch"
    /\ p.alt_poll_task
    /\ alt_held

\* The reuse path of open_picker: handle.update returns true; the view
\* takes the config and the windows, and window.activate_window() shows it.
open_picker_reuse(p, action_mode, windows, reset_selection) ==
    [p EXCEPT !.action_mode = action_mode,
              !.alt_poll_task = (action_mode = "HoldToSwitch"),
              !.delegate = set_windows(@, windows, reset_selection),
              !.on_screen = TRUE]

\* AltTabApp::new: the delegate of a new view.
new_view_delegate(windows, cycle_on_open) ==
    IF cycle_on_open /\ Len(windows) >= 2
    THEN select_next(new_with_previews(windows))
    ELSE new_with_previews(windows)

\* The last part of open_picker: cx.open_window, current set when it
\* succeeds, and PICKER_VISIBLE.store(true).
open_picker_new(p, action_mode, windows, cycle_on_open, open_ok) ==
    IF open_ok
    THEN Picker(TRUE, TRUE, TRUE, action_mode,
                action_mode = "HoldToSwitch",
                new_view_delegate(windows, cycle_on_open))
    ELSE [p EXCEPT !.current = FALSE, !.on_screen = FALSE,
                   !.picker_visible = TRUE]

\* open_picker: the path taken and the picker it leaves.  config is the
\* AltTabConfig (action_mode, reset_selection_on_open, cycle_on_open);
\* answers is what the platform answers during the call: whether the
\* window handle can still be updated, whether Alt is held, whether the
\* window could be moved to the target monitor, whether cx.open_window
\* succeeds.
open_picker(p, config, windows, reverse, answers) ==
    IF reverse /\ ~p.current
    THEN [path |-> "ignored", picker |-> p]
    ELSE IF open_picker_cycles(p, answers.handle_alive, answers.alt_held)
    THEN [path |-> "cycled",
          picker |-> [p EXCEPT !.delegate =
                         IF reverse THEN select_prev(@) ELSE select_next(@)]]
    ELSE IF p.current /\ answers.handle_alive /\ answers.move_ok
    THEN [path |-> "reused",
          picker |-> open_picker_reuse(p, config.action_mode, windows,
                                       config.reset_selection_on_open)]
    ELSE [path |-> IF answers.open_ok THEN "opened" ELSE "open_failed",
          picker |-> open_picker_new(p, config.action_mode, windows,
                                     config.cycle_on_open, answers.open_ok)]

\* WindowDelegate::activate_selected as the picker sees it: nothing
\* without a selection; otherwise PICKER_VISIBLE.store(false) and
\* dismiss_picker.
picker_activate_selected(p) ==
    IF IsSome(activate_selected(p.delegate).activated)
    THEN dismiss_picker([p EXCEPT !.picker_visible = FALSE])
    ELSE p

PickerInit ==
    /\ monitors = <<>>
    /\ state = InputStateDefault
    /\ any_visible = FALSE
    /\ state_lock = "free"
    /\ clock = 0
    /\ poll_safe = TRUE
    /\ focus_calls = 0
    /\ config_file = StartConfig
    /\ env = TrackerEnv
    /\ bg = BgInit(StartConfig)
    /\ ui = UiStart("idle", None)
    /\ st = PickerStart
    /\ op = PickerOp("none", "none")

\* A Show or ShowReverse command: open_picker with the reloaded config,
\* the windows the platform lists and what the platform answers.
PkOpenPicker ==
    \E action_mode \in ActionModes, windows \in PickerWindowLists,
       reset_selection \in BOOLEAN, cycle_on_open \in BOOLEAN,
       reverse \in BOOLEAN, handle_alive \in BOOLEAN, alt_held \in BOOLEAN,
       move_ok \in BOOLEAN, open_ok \in BOOLEAN :
        LET r == open_picker(
                     st,
                     [action_mode |-> action_mode,
                      reset_selection_on_open |-> reset_selection,
                      cycle_on_open |-> cycle_on_open],
                     windows, reverse,
                     [handle_alive |-> handle_alive, alt_held |-> alt_held,
                      move_ok |-> move_ok, open_ok |-> open_ok])
        IN  /\ st' = r.picker
            /\ op' = PickerOp("open_picker", r.path)
            /\ UNCHANGED trackerVars

\* handle_key_down, "escape"
PkEscape ==
    /\ st.on_screen
    /\ st' = dismiss_picker([st EXCEPT !.picker_visible = FALSE])
    /\ op' = PickerOp("escape", "dismissed")
    /\ UNCHANGED trackerVars

\* handle_key_down, "w": the selected window is closed and removed.
PkCloseSelected ==
    /\ st.on_screen
    /\ IsSome(st.delegate.selected_index)
    /\ st' = [st EXCEPT !.delegate =
                 remove_window(@, @.windows[Unwrap(@.selected_index) + 1].id)]
    /\ op' = PickerOp("close_selected", "kept")
    /\ UNCHANGED trackerVars

\* handle_key_down, "enter", and a click on a card: activate_selected.
PkActivate ==
    /\ st.on_screen
    /\ IsSome(st.delegate.selected_index)
    /\ st' = picker_activate_selected(st)
    /\ op' = PickerOp("activate", "dismissed")
    /\ UNCHANGED trackerVars

\* The Alt poll task sees Alt released: activate_selected, and the task
\* ends.
PkAltReleased ==
    /\ st.current
    /\ st.alt_poll_task
    /\ st' = [picker_activate_selected(st) EXCEPT !.alt_poll_task = FALSE]
    /\ op' = PickerOp("alt_released",
                      IF IsSome(st.delegate.selected_index)
                      THEN "dismissed" ELSE "kept")
    /\ UNCHANGED trackerVars

\* The focus-out subscription of AltTabApp::new.
PkFocusOut ==
    /\ st.on_screen
    /\ st' = IF st.action_mode # "HoldToSwitch"
             THEN dismiss_picker([st EXCEPT !.picker_visible = FALSE])
             ELSE st
    /\ op' = PickerOp("focus_out",
                      IF st.action_mode # "HoldToSwitch"
                      THEN "dismissed" ELSE "kept")
    /\ UNCHANGED trackerVars

PickerNext ==
    \/ PkOpenPicker
    \/ PkEscape
    \/ PkCloseSelected
    \/ PkActivate
    \/ PkAltReleased
    \/ PkFocusOut

PickerSpec ==
    PickerInit /\ [][PickerNext]_vars

(***************************************************************************)
(* The claims about InputState and pick_active_monitor, under StateSpec.   *)
(***************************************************************************)

\* C3: pick_active_monitor returns the cursor's monitor when both signals
\* are present and the cursor's timestamp is not older than the focus's (a
\* tie goes to the cursor), the focus's monitor when the focus is strictly
\* newer, the monitor of the only signal present, and the fallback when
\* neither is present.
C3_PickByRecency ==
    op.name = "pick" =>
        LET c == op.pre.cursor
            f == op.pre.focus
            r == Unwrap(op.result)
        IN  /\ (IsSome(c) /\ IsSome(f) /\ Unwrap(c).at >= Unwrap(f).at)
                   => r = Unwrap(c).monitor
            /\ (IsSome(c) /\ IsSome(f) /\ Unwrap(c).at < Unwrap(f).at)
                   => r = Unwrap(f).monitor
            /\ (IsSome(c) /\ ~IsSome(f)) => r = Unwrap(c).monitor
            /\ (~IsSome(c) /\ IsSome(f)) => r = Unwrap(f).monitor
            /\ (~IsSome(c) /\ ~IsSome(f)) => r = Unwrap(op.monitor)

\* A pick over a cursor and a focus signal on different monitors with the
\* same timestamp has returned the cursor's monitor.
C3_Witness ==
    /\ op.name = "pick"
    /\ IsSome(op.pre.cursor)
    /\ IsSome(op.pre.focus)
    /\ Unwrap(op.pre.cursor).at = Unwrap(op.pre.focus).at
    /\ Unwrap(op.pre.cursor).monitor # Unwrap(op.pre.focus).monitor
    /\ op.result = Some(Unwrap(op.pre.cursor).monitor)

\* C4: update_cursor with committed = true and update_focus overwrite the
\* stored (monitor, timestamp) pair of their signal exactly when nothing is
\* stored or the new monitor differs from the stored one; a call naming the
\* stored monitor leaves the pair, and so its timestamp, as it was; the
\* other signal is never touched.
C4_OverwriteOnlyOnTransition ==
    /\ (op.name = "update_cursor" /\ op.committed) =>
           /\ st.focus = op.pre.focus
           /\ st.cursor =
                  IF SignalMonitor(op.pre.cursor) = op.monitor
                  THEN op.pre.cursor
                  ELSE Some(Stamped(Unwrap(op.monitor), op.at))
    /\ (op.name = "update_focus" /\ IsSome(op.monitor)) =>
           /\ st.cursor = op.pre.cursor
           /\ st.focus =
                  IF SignalMonitor(op.pre.focus) = op.monitor
                  THEN op.pre.focus
                  ELSE Some(Stamped(Unwrap(op.monitor), op.at))

\* A committed update_cursor has named the stored monitor with a later
\* timestamp and the stored pair still carries the earlier one.
C4_Witness ==
    /\ op.name = "update_cursor"
    /\ op.committed
    /\ SignalMonitor(op.pre.cursor) = op.monitor
    /\ Unwrap(op.pre.cursor).at < op.at
    /\ st.cursor = op.pre.cursor

\* C5: update_cursor with committed = false leaves the whole InputState as
\* it was, whatever monitor and timestamp it is given.
C5_UncommittedCursorIgnored ==
    (op.name = "update_cursor" /\ ~op.committed) => st = op.pre

\* An uncommitted update_cursor has named a monitor other than the stored
\* one, with a later timestamp, and nothing changed.
C5_Witness ==
    /\ op.name = "update_cursor"
    /\ ~op.committed
    /\ IsSome(op.pre.cursor)
    /\ SignalMonitor(op.pre.cursor) # op.monitor
    /\ Unwrap(op.pre.cursor).at < op.at
    /\ st = op.pre

\* C6: update_focus takes monitor = None as an explicit "no focus" signal,
\* distinct from a focus that was never set: going from a stored monitor to
\* None overwrites the focus signal with one carrying the new timestamp.
C6_ExplicitNoFocusStored ==
    ( /\ op.name = "update_focus"
      /\ op.monitor = None
      /\ IsSome(op.pre.focus)
      /\ Unwrap(op.pre.focus).at # op.at )
    => /\ IsSome(st.focus)
       /\ Unwrap(st.focus).at = op.at
       /\ st.focus # op.pre.focus


(***************************************************************************)
(* The claims about the background loop, under LoopSpec.                   *)
(***************************************************************************)

\* C1: on a platform whose poll_focused_window() is false, the background
\* thread makes no call of focused_window_bounds() while the visibility
\* flag is true.
C1_NoFocusQueryWhileVisible ==
    [][(~poll_safe /\ bg.pc = "focus" /\ bg'.pc = "lock_state")
           => ~any_visible]_vars


\* C23: a background tick changes the stored cursor signal only when the
\* poller's current interval, as it is at the start of the tick, is at
\* least commit_threshold; a tick below the threshold leaves the stored
\* cursor signal as it is, whichever monitor the cursor is on.
C23_CursorCommitNeedsSlowInterval ==
    [][state'.cursor # state.cursor
           => /\ bg.pc = "lock_state"
              /\ bg.poller.current >= bg.commit_threshold]_vars

\* A tick below the threshold has passed its cursor update with the cursor
\* on a monitor other than the stored one.
C23_Witness ==
    /\ bg.pc = "update_focus"
    /\ bg.poller.current < bg.commit_threshold
    /\ IsSome(bg.cursor_monitor)
    /\ IsSome(state.cursor)
    /\ SignalMonitor(state.cursor) # bg.cursor_monitor

\* The step of a tick that ends it: the focus update, then poller.tick.
TickEnds ==
    bg.pc = "update_focus" /\ bg'.pc # "update_focus"

\* Whether this tick changed the monitor of a stored signal: the cursor's
\* at its cursor update, the focus's at the step that ends it.
TickTransitioned ==
    \/ bg.signal_changed
    \/ SignalMonitor(state'.focus) # SignalMonitor(state.focus)

\* C24 as stated: the activity flag with which a tick advances the poller
\* is true exactly when the stored cursor signal or the stored focus signal
\* transitioned on that tick.
C24_ActivityIffSignalTransition ==
    [][TickEnds => bg'.poller = poller_tick(bg.poller, TickTransitioned)]_vars

\* C24, amended: on a tick that acquires the Input State lock the
\* activity flag is true exactly when a stored signal transitioned on that
\* tick or the sampled cursor position differs from the previous sample by
\* more than one pixel on an axis (or is the first one available after
\* none); on a tick whose lock acquisition fails it is false.
\* signal_changed after the cursor update says whether the stored cursor's
\* monitor changed.
C24_ActivityIffTransitionOrCursorMoved ==
    [][/\ TickEnds
          => bg'.poller = poller_tick(bg.poller,
                                      bg.cursor_moved \/ TickTransitioned)
       /\ (bg.pc = "lock_state" /\ bg'.pc \notin {"lock_state", "update_focus"})
          => /\ state_lock = "poisoned"
             /\ bg'.poller = poller_tick(bg.poller, FALSE)
       /\ (bg.pc = "lock_state" /\ bg'.pc = "update_focus")
          => (bg'.signal_changed
                <=> SignalMonitor(state'.cursor) # SignalMonitor(state.cursor))
      ]_vars

\* The poller has been sped up although no signal was ever stored: the
\* cursor, on no monitor, had moved.
C24_Witness ==
    /\ bg.pc = "loop"
    /\ bg.poller.current < bg.poller.max
    /\ state.cursor = None
    /\ state.focus = None
    /\ IsSome(bg.last_cursor_pos)

\* A tick of the kind C25 is about, at its last step: the cursor position
\* was unavailable or on no monitor, or the InputState lock is not to be
\* had.
FailedTick ==
    \/ bg.pc = "lock_state" /\ state_lock = "poisoned"
    \/ bg.pc = "update_focus" /\ bg.cursor_monitor = None

\* C25: on a tick where the cursor position is unavailable or lies on no
\* monitor, or where the Input State lock cannot be acquired, the stored
\* cursor signal is left unchanged, nothing panics, and the loop advances
\* the poller and goes on to its next iteration.
C25_FailedTickSkipsAndGoesOn ==
    [][(FailedTick /\ bg' # bg)
           => /\ state'.cursor = state.cursor
              /\ bg'.pc = "loop"
              /\ ~bg'.poller.panicked
              /\ \E activity \in BOOLEAN :
                    bg'.poller = poller_tick(bg.poller, activity)]_vars

\* C26: a loop iteration that finds the monitor list empty makes no cursor
\* and no focus query, leaves the Input State as it is and does not tick
\* the poller (a config refresh may reconfigure it), and the loop is back
\* at its head; an iteration that finds the list non-empty goes on to
\* sample with that list.
C26_EmptyListIterationDoesNothing ==
    [][/\ (bg.pc = "loop" /\ monitors = <<>>)
          => /\ state' = state
             /\ focus_calls' = focus_calls
             /\ bg'.last_cursor_pos = bg.last_cursor_pos
             /\ bg'.pc = "loop"
             /\ \/ bg'.poller = bg.poller
                \/ /\ bg'.active_config # bg.active_config
                   /\ bg'.poller = poller_reconfigure(
                          bg.poller,
                          from_millis(bg'.active_config.poll_min_ms),
                          from_millis(bg'.active_config.poll_max_ms),
                          strategy_from_name(bg'.active_config.strategy))
       /\ (bg.pc = "loop" /\ monitors # <<>> /\ bg' # bg)
          => bg'.pc = "now" /\ bg'.monitors = monitors
      ]_vars

\* With an empty monitor list an iteration has run, as the refreshed
\* config shows, and nothing was sampled, stored or ticked.
C26_Witness ==
    /\ monitors = <<>>
    /\ bg.pc = "loop"
    /\ bg.active_config # normalized(StartConfig)
    /\ state = InputStateDefault
    /\ bg.last_cursor_pos = None
    /\ focus_calls = 0
    /\ bg.poller.current = bg.poller.max

(***************************************************************************)
(* The claims about snapshot on its own, under CallSpec.                   *)
(***************************************************************************)

\* C2: no step of a snapshot() call queries the focused window: the count
\* of focused_window_bounds() calls is the same after each step of the call
\* as before it, for any number of monitors and any stored state.
C2_SnapshotMakesNoFocusQuery ==
    [][( \/ ui.pc \in {"s_now", "s_state", "s_visible"} /\ ui' # ui
         \/ ui.pc = "idle" /\ ui' # ui /\ ui'.pc \in {"s_now", "idle"} )
           => focus_calls' = focus_calls]_vars

\* A snapshot over two monitors has returned right after a
\* force_focus_update, and the one focus query made is that of the force.
C2_Witness ==
    /\ ui.pc = "idle"
    /\ ui.op = "snapshot"
    /\ Len(ui.monitors) >= 2
    /\ IsSome(ui.result)
    /\ IsSome(ui.after_force)
    /\ focus_calls = 1

\* C11: snapshot() returns None for an empty monitor list and the only
\* monitor for a list of one, and in both cases it returns without a
\* platform query and without reading the Input State or the visibility
\* flag: whatever is stored, its copy of the state, its cursor reading and
\* its reading of the flag are never assigned.
C11_EmptyAndSingleShortCircuit ==
    ( /\ ui.pc = "idle"
      /\ ui.op = "snapshot"
      /\ Len(ui.monitors) <= 1 )
    => /\ ui.result = IF ui.monitors = <<>> THEN None ELSE Some(ui.monitors[1])
       /\ ui.cloned = InputStateDefault
       /\ ui.state = InputStateDefault
       /\ ui.cursor_monitor = None
       /\ ~ui.launcher_visible

\* A snapshot over a single monitor has returned it while signals are
\* stored and the flag is set, without a copy of either.
C11_Witness ==
    /\ ui.pc = "idle"
    /\ ui.op = "snapshot"
    /\ Len(ui.monitors) = 1
    /\ ui.result = Some(ui.monitors[1])
    /\ IsSome(state.cursor)
    /\ IsSome(state.focus)
    /\ any_visible
    /\ ui.cloned = InputStateDefault

\* C9: with the flag clear, a snapshot whose cursor query lands on the
\* monitor of the stored cursor signal, while the stored focus signal is
\* strictly newer than it, returns the focus's monitor; the cursor signal
\* of its copy keeps the stored timestamp.
C9_NewerFocusBeatsUnmovedCursor ==
    ( /\ ui.pc = "idle"
      /\ ui.op = "snapshot"
      /\ Len(ui.monitors) >= 2
      /\ ~ui.launcher_visible
      /\ IsSome(ui.cursor_monitor)
      /\ SignalMonitor(ui.cloned.cursor) = ui.cursor_monitor
      /\ IsSome(ui.cloned.focus)
      /\ Unwrap(ui.cloned.focus).at > Unwrap(ui.cloned.cursor).at )
    => /\ ui.result = SignalMonitor(ui.cloned.focus)
       /\ ui.state.cursor = ui.cloned.cursor

\* Such a snapshot has returned, taken later than the stored focus signal,
\* the focus on another monitor than the cursor.
C9_Witness ==
    /\ ui.pc = "idle"
    /\ ui.op = "snapshot"
    /\ Len(ui.monitors) >= 2
    /\ ~ui.launcher_visible
    /\ IsSome(ui.cursor_monitor)
    /\ SignalMonitor(ui.cloned.cursor) = ui.cursor_monitor
    /\ IsSome(ui.cloned.focus)
    /\ Unwrap(ui.cloned.focus).at > Unwrap(ui.cloned.cursor).at
    /\ ui.now > Unwrap(ui.cloned.focus).at
    /\ SignalMonitor(ui.cloned.focus) # ui.cursor_monitor
    /\ ui.result = SignalMonitor(ui.cloned.focus)

\* C10: a snapshot that reads the flag set fuses without the focus signal:
\* when a cursor signal exists, freshly resolved or else stored, it returns
\* that monitor, also when the stored focus signal is newer.
C10_VisibleLauncherDropsFocus ==
    ( /\ ui.pc = "idle"
      /\ ui.op = "snapshot"
      /\ Len(ui.monitors) >= 2
      /\ ui.launcher_visible )
    => LET cursor == IF IsSome(ui.cursor_monitor)
                     THEN ui.cursor_monitor
                     ELSE SignalMonitor(ui.cloned.cursor)
       IN  /\ ui.state.focus = None
           /\ IsSome(cursor) => ui.result = cursor

\* A snapshot has read the flag set and returned the cursor's monitor while
\* the stored focus signal, on another monitor, was newer than the cursor
\* signal.
C10_Witness ==
    /\ ui.pc = "idle"
    /\ ui.op = "snapshot"
    /\ Len(ui.monitors) >= 2
    /\ ui.launcher_visible
    /\ IsSome(ui.cloned.focus)
    /\ IsSome(ui.state.cursor)
    /\ Unwrap(ui.cloned.focus).at > Unwrap(ui.state.cursor).at
    /\ SignalMonitor(ui.cloned.focus) # SignalMonitor(ui.state.cursor)
    /\ ui.result = SignalMonitor(ui.state.cursor)


(***************************************************************************)
(* The claims about snapshot and force_focus_update next to the background *)
(* loop, under Spec.                                                       *)
(***************************************************************************)

\* C7 as stated: once force_focus_update() has observed the focused window
\* on monitor M, the very next snapshot() (two or more monitors, flag
\* clear) returns M.
C7_NextSnapshotReturnsForced ==
    [][( /\ ui.pc = "s_visible"
         /\ ui'.pc = "idle"
         /\ IsSome(ui.after_force)
         /\ ~any_visible )
           => ui'.result = ui.after_force]_vars

\* C7 as amended: the write of a force_focus_update() that observed the
\* focused window on M leaves the stored focus signal on M at once, and the
\* very next snapshot() (two or more monitors, flag clear) returns M when
\* the focus signal it reads is still on M and is strictly newer than the
\* cursor signal of its copy after the fresh cursor reading.
C7_ForcedFocusSeenByNextSnapshot ==
    [][ /\ ( /\ ui.pc = "f_update"
             /\ ui'.pc = "idle"
             /\ IsSome(ui.focus_monitor) )
               => SignalMonitor(state'.focus) = ui.focus_monitor
        /\ ( /\ ui.pc = "s_visible"
             /\ ui'.pc = "idle"
             /\ IsSome(ui.after_force)
             /\ ~any_visible
             /\ SignalMonitor(ui.cloned.focus) = ui.after_force
             /\ \/ ~IsSome(ui.state.cursor)
                \/ Unwrap(ui.state.cursor).at < Unwrap(ui.cloned.focus).at )
               => ui'.result = ui.after_force ]_vars

\* The snapshot after a force_focus_update that saw a window on M has
\* returned M, with the flag clear and the stored cursor signal on another
\* monitor.
C7_Witness ==
    /\ ui.pc = "idle"
    /\ ui.op = "snapshot"
    /\ IsSome(ui.after_force)
    /\ ui.result = ui.after_force
    /\ ~any_visible
    /\ IsSome(state.cursor)
    /\ SignalMonitor(state.cursor) # ui.result
    /\ SignalMonitor(state.focus) = ui.result

\* C18: a background tick applies its cursor update and its focus update
\* in one critical section of the Input State mutex: no snapshot() clones
\* the Input State between the two updates of a tick, so its copy holds
\* both signals as they were before the tick or both as they are after it.
C18_TickUpdatesAtomicForSnapshot ==
    [][(ui.pc = "s_state" /\ ui'.pc = "s_visible")
           => bg.pc # "update_focus"]_vars

\* A snapshot is about to clone the Input State while a tick that has
\* changed the cursor signal holds the mutex, its focus update still to
\* come.
C18_Witness ==
    /\ ui.pc = "s_state"
    /\ bg.pc = "update_focus"
    /\ bg.signal_changed
    /\ state_lock = "bg"
    /\ IsSome(bg.focus_monitor)
    /\ SignalMonitor(state.focus) # bg.focus_monitor

\* C19: no thread holds the Input State mutex or the monitor-list mutex
\* while it executes a platform query (cursor_position or
\* focused_window_bounds); so while the background thread is inside a query
\* that does not return, every mutex the caller of snapshot() or
\* force_focus_update() is about to take is free for it.
C19_NoMutexHeldAcrossQuery ==
    /\ \A who \in LkThreads : st[who].in_query => LkHeld(st, who) = {}
    /\ op.ins.kind = "query" => op.held = {}
    /\ (st.bg.in_query /\ LkRunning(st.ui)
            /\ LkNextIns(st.ui).kind = "lock")
          => st.owner[LkNextIns(st.ui).what] \in {"free"}

\* The background thread is inside focused_window_bounds while a snapshot
\* is about to lock the Input State.
C19_Witness ==
    /\ st.bg.in_query
    /\ LkNextIns(st.bg).what = "focused_window_bounds"
    /\ st.ui.prog = "snapshot"
    /\ LkNextIns(st.ui) = Ins("lock", "state")

\* C20: the normalized configuration has poll_min <= poll_max for every
\* input: with poll_min > poll_max both bounds become the defaults 16 ms
\* and 500 ms, an empty strategy name becomes "basic", and everything else
\* is kept (the bounds when they are in order, a name that is not blank,
\* the commit threshold); so the bounds poll_loop hands to
\* AdaptivePoller::new and to reconfigure, and the bounds its poller holds,
\* are in order.
C20_NormalizedBoundsInOrder ==
    LET c == op.raw
        n == op.latest
    IN  op.name \in {"new", "refresh"} =>
        /\ n.poll_min_ms <= n.poll_max_ms
        /\ c.poll_min_ms > c.poll_max_ms
              => n.poll_min_ms = 16 /\ n.poll_max_ms = 500
        /\ c.poll_min_ms <= c.poll_max_ms
              => /\ n.poll_min_ms = c.poll_min_ms
                 /\ n.poll_max_ms = c.poll_max_ms
        /\ c.strategy = "" => n.strategy = "basic"
        /\ c.strategy \notin BlankNames => n.strategy = c.strategy
        /\ n.commit_threshold_ms = c.commit_threshold_ms
        /\ IsSome(op.passed) => op.passed[1][1] <= op.passed[1][2]
        /\ st.active_config = n \/ op.passed = None
        /\ st.poller.min <= st.poller.max
        /\ st.poller.min <= st.poller.current
        /\ st.poller.current <= st.poller.max

\* A refresh has read a file with poll_min above poll_max and an empty
\* strategy name, and has reconfigured the poller away from bounds that
\* were not the defaults.
C20_Witness ==
    /\ op.name = "refresh"
    /\ op.raw.poll_min_ms > op.raw.poll_max_ms
    /\ op.raw.poll_max_ms < 16
    /\ op.raw.strategy = ""
    /\ IsSome(op.passed)
    /\ st.poller.min = from_millis(16)
    /\ st.poller.max = from_millis(500)

\* C21: monitor_for_point returns the first monitor in list order with
\* origin_x <= x < origin_x + width and origin_y <= y < origin_y + height,
\* and None exactly when no monitor satisfies this; a point on a monitor's
\* right or bottom edge is not inside it.
C21_FirstMonitorHalfOpen ==
    op.name = "monitor_for_point" =>
        LET x == op.arg[1]
            y == op.arg[2]
            inside == {i \in 1..Len(st) :
                          /\ st[i].x <= x /\ x < st[i].x + st[i].w
                          /\ st[i].y <= y /\ y < st[i].y + st[i].h}
        IN  /\ op.result = None <=> inside = {}
            /\ \A i \in inside :
                  (\A j \in inside : i <= j) => op.result = Some(st[i])
            /\ \A i \in 1..Len(st) :
                  (x = st[i].x + st[i].w \/ y = st[i].y + st[i].h)
                      => i \notin inside

\* The point lies on the right edge of the first monitor and inside the
\* second, which is returned.
C21_Witness ==
    /\ op.name = "monitor_for_point"
    /\ Len(st) = 2
    /\ op.arg[1] = st[1].x + st[1].w
    /\ op.arg[2] >= st[1].y
    /\ op.arg[2] < st[1].y + st[1].h
    /\ op.result = Some(st[2])
    /\ st[2] # st[1]

\* C22: monitor_for_bounds returns a monitor whose intersection area with
\* the window is strictly positive and maximal over the whole list, and
\* None exactly when every monitor's intersection with the window has zero
\* or negative width or height.
C22_LargestOverlap ==
    op.name = "monitor_for_bounds" =>
        LET wd == op.arg
            IW(m) == Min2(wd.x + wd.w, m.x + m.w) - Max2(wd.x, m.x)
            IH(m) == Min2(wd.y + wd.h, m.y + m.h) - Max2(wd.y, m.y)
            Area(m) == IF IW(m) <= 0 \/ IH(m) <= 0 THEN 0 ELSE IW(m) * IH(m)
        IN  /\ op.result = None
                  <=> \A i \in 1..Len(st) : IW(st[i]) <= 0 \/ IH(st[i]) <= 0
            /\ IsSome(op.result)
                  => /\ \E i \in 1..Len(st) : st[i] = Unwrap(op.result)
                     /\ Area(Unwrap(op.result)) > 0
                     /\ \A i \in 1..Len(st) :
                           Area(st[i]) <= Area(Unwrap(op.result))

\* The window overlaps both monitors, the second by more, and the second
\* is returned.
C22_Witness ==
    /\ op.name = "monitor_for_bounds"
    /\ Len(st) = 2
    /\ intersection_area(op.arg, st[1]) > 0
    /\ intersection_area(op.arg, st[2]) > intersection_area(op.arg, st[1])
    /\ op.result = Some(st[2])

\* C27: at a config refresh, if the loaded normalized config differs from
\* the active one, the poller's bounds and strategy and the commit
\* threshold are replaced by the new values (the strategy starts afresh,
\* the interval is kept within the new bounds) and the new config becomes
\* the active one; if it equals the active one, the poller (bounds,
\* interval, strategy state such as the momentum streak) and the commit
\* threshold are left as they are.
C27_RefreshReplacesOnlyOnDifference ==
    op.name = "refresh" =>
        IF op.latest # op.pre.active_config
        THEN /\ st.poller.min = op.latest.poll_min_ms * 1000000
             /\ st.poller.max = op.latest.poll_max_ms * 1000000
             /\ st.poller.strategy.kind =
                    (IF op.latest.strategy \in {"momentum", "Momentum"}
                     THEN "momentum" ELSE "basic")
             /\ st.poller.strategy.streak = 0
             /\ st.commit_threshold = op.latest.commit_threshold_ms * 1000000
             /\ st.active_config = op.latest
        ELSE /\ st.poller = op.pre.poller
             /\ st.commit_threshold = op.pre.commit_threshold
             /\ st.active_config = op.pre.active_config

\* A refresh has found the active config again while the momentum
\* strategy was in a streak and the interval below max.
C27_Witness ==
    /\ op.name = "refresh"
    /\ op.latest = op.pre.active_config
    /\ op.pre.poller.strategy.streak > 1
    /\ st.poller.current < st.poller.max

\* C8: in a snapshot over two or more monitors whose cursor query resolves
\* to a monitor other than that of the stored cursor signal (or with none
\* stored), the result is the cursor's monitor, whatever focus signal is
\* stored and whatever the commit gate of the background loop.
C8_FreshCursorWins ==
    [][( /\ ui.pc = "s_visible"
         /\ ui'.pc = "idle"
         /\ IsSome(ui.cursor_monitor)
         /\ SignalMonitor(ui.cloned.cursor) # ui.cursor_monitor )
           => ui'.result = ui.cursor_monitor]_vars

(***************************************************************************)
(* The claims about the poll strategies and the AdaptivePoller, under      *)
(* PollerSpec.                                                             *)
(***************************************************************************)

\* C12: for every min <= max, every current interval, every changed flag
\* and, for MomentumStrategy, every history of calls before, next_interval
\* of BasicStrategy and of MomentumStrategy returns an interval r with
\* min <= r <= max.
C12_IntervalWithinBounds ==
    op.name \in {"tick", "next_interval"} =>
        /\ ~op.result.panicked
        /\ op.pre.min <= op.result.value
        /\ op.result.value <= op.pre.max

\* C13: for every current in [min, max], BasicStrategy::next_interval
\* returns exactly clamp(current / 2, min, max) when changed and exactly
\* clamp(2 * current, min, max) when not.
C13_BasicHalvesAndDoubles ==
    ( /\ op.name \in {"tick", "next_interval"}
      /\ op.pre.strategy.kind = "basic"
      /\ op.pre.min <= op.current
      /\ op.current <= op.pre.max )
    => /\ ~op.result.panicked
       /\ op.result.value =
              IF op.changed
              THEN Max2(op.pre.min, op.current \div 2)
              ELSE Min2(op.pre.max, 2 * op.current)

\* A BasicStrategy has halved an interval down to a min above the half,
\* and has doubled an interval whose double is no Duration up to max.
C13_Witness ==
    /\ op.name = "next_interval"
    /\ op.pre.strategy.kind = "basic"
    /\ op.pre.min <= op.current
    /\ op.current <= op.pre.max
    /\ \/ /\ op.changed
          /\ op.current \div 2 < op.pre.min
          /\ op.result.value = op.pre.min
       \/ /\ ~op.changed
          /\ mul_overflows(op.current, 2)
          /\ op.result.value = op.pre.max

\* C14: an AdaptivePoller constructed with min < max starts with current
\* = max; its first tick(true) returns an interval strictly below max; and
\* the tick(false) calls that follow bring the interval back to exactly
\* max in finitely many calls: each of them returns max or an interval
\* longer than the one before (a strategy that returns the same interval
\* below max once returns it ever after).
C14_RampsDownThenBackToMax ==
    op.pre.min < op.pre.max =>
        /\ op.run = "new" => st.current = st.max
        /\ op.run = "first_change" =>
               /\ ~op.result.panicked
               /\ op.result.value < op.pre.max
        /\ op.run = "idle" =>
               /\ ~op.result.panicked
               /\ \/ op.result.value = op.pre.max
                  \/ op.result.value > op.pre.current

\* C15: reconfigure(min', max', strategy) sets current to
\* clamp(previous current, min', max'): a current within the new bounds is
\* left as it is, and is not reset to max'.
C15_ReconfigureReclamps ==
    op.name = "reconfigure" =>
        /\ st.current = Min2(Max2(op.pre.current, st.min), st.max)
        /\ (st.min <= op.pre.current /\ op.pre.current <= st.max)
               => st.current = op.pre.current

\* A reconfigure to other bounds has left a current strictly below the new
\* max as it was.
C15_Witness ==
    /\ op.name = "reconfigure"
    /\ st.max # op.pre.max
    /\ st.min <= op.pre.current
    /\ op.pre.current < st.max
    /\ st.current = op.pre.current

\* C16 as stated: for equal starting intervals, the first changed call of a
\* MomentumStrategy that has just seen a long run of idle calls returns an
\* interval never larger than the first changed call of a fresh strategy,
\* and strictly smaller whenever the fresh strategy's result is above min.
C16_LongIdleRunRampsDownHarder ==
    ( /\ op.name = "next_interval"
      /\ op.pre.strategy.kind = "momentum"
      /\ op.changed
      /\ op.pre.strategy.streak <= -2 )
    => /\ op.result.value <= op.reference.value
       /\ op.reference.value > op.pre.min
              => op.result.value < op.reference.value

\* C16 as amended: that call returns exactly the interval the fresh
\* strategy returns, never a larger and never a smaller one.
C16_LongIdleRunRampsDownAlike ==
    ( /\ op.name = "next_interval"
      /\ op.pre.strategy.kind = "momentum"
      /\ op.changed
      /\ op.pre.strategy.streak <= -2 )
    => /\ ~op.result.panicked
       /\ op.result = op.reference

\* After a long idle run a changed call has returned the interval of the
\* fresh strategy, above min.
C16_Witness ==
    /\ op.name = "next_interval"
    /\ op.pre.strategy.kind = "momentum"
    /\ op.changed
    /\ op.pre.strategy.streak <= -2
    /\ op.reference.value > op.pre.min
    /\ op.result.value = op.reference.value

\* C17 as stated: for equal starting intervals, the first idle call of a
\* MomentumStrategy that has just seen a long run of changed calls returns
\* an interval never larger than the first idle call after a single changed
\* call, and strictly smaller whenever that result is not clamped at min or
\* max.
C17_LongActiveRunRampsUpGentler ==
    ( /\ op.name = "next_interval"
      /\ op.pre.strategy.kind = "momentum"
      /\ ~op.changed
      /\ op.pre.strategy.streak >= 2
      /\ ~op.result.panicked
      /\ ~op.reference.panicked )
    => /\ op.result.value <= op.reference.value
       /\ ( /\ op.pre.min < op.reference.value
            /\ op.reference.value < op.pre.max )
              => op.result.value < op.reference.value

\* C17 as amended: that call yields exactly what the first idle call
\* after a single changed call yields, never a larger and never a smaller
\* interval.
C17_LongActiveRunRampsUpAlike ==
    ( /\ op.name = "next_interval"
      /\ op.pre.strategy.kind = "momentum"
      /\ ~op.changed
      /\ op.pre.strategy.streak >= 2 )
    => op.result = op.reference

\* After a long run of changed calls an idle call has returned the
\* interval returned after a single changed call, strictly between min and
\* max.
C17_Witness ==
    /\ op.name = "next_interval"
    /\ op.pre.strategy.kind = "momentum"
    /\ ~op.changed
    /\ op.pre.strategy.streak >= 2
    /\ ~op.result.panicked
    /\ op.pre.min < op.reference.value
    /\ op.reference.value < op.pre.max
    /\ op.result.value = op.reference.value

C29_MomentumFactors ==
    (op.name \in {"tick", "next_interval"}
        /\ op.pre.strategy.kind = "momentum")
    => LET k == op.same
           c == op.current
           lo == op.pre.min
           hi == op.pre.max
           Clamped(v) == IF v < lo THEN lo ELSE IF v > hi THEN hi ELSE v
           divisor == IF k < 2 THEN 2 ELSE IF k > 8 THEN 8 ELSE k
       IN  /\ ~op.result.panicked
           /\ op.changed => op.result.value = Clamped(c \div divisor)
           \* current * (k + 1) / k, rounded down, is current + current / k
           /\ ~op.changed => op.result.value = Clamped(c + c \div k)

\* C30: after AdaptivePoller::new(min, max, _) with min <= max and any
\* sequence of tick and reconfigure calls (each with min <= max), the
\* poller's current interval lies within the bounds configured at that
\* moment, and after a tick it is the value that tick returned.
C30_CurrentWithinConfiguredBounds ==
    /\ st.min <= st.current
    /\ st.current <= st.max
    /\ (op.name = "tick" /\ ~op.result.panicked)
          => st.current = op.result.value
    /\ op.name = "new" => st.current = st.max

\* A reconfigure has narrowed the bounds below the interval of a poller
\* that ticks had moved, and the interval is the new max.
C30_Witness ==
    /\ op.name = "reconfigure"
    /\ op.pre.current < op.pre.max
    /\ op.pre.current > st.max
    /\ st.current = st.max

\* C31: for each signal the timestamp stored in the shared Input State
\* never decreases: whatever the interleaving of background ticks and
\* force_focus_update() calls, no write to the cursor or the focus field
\* carries an earlier timestamp than the value it replaces.
C31_StoredTimestampsNeverDecrease ==
    [][/\ (IsSome(state.cursor) /\ IsSome(state'.cursor))
          => Unwrap(state'.cursor).at >= Unwrap(state.cursor).at
       /\ (IsSome(state.focus) /\ IsSome(state'.focus))
          => Unwrap(state'.focus).at >= Unwrap(state.focus).at]_vars

C33_RestingCursorEventuallyStored ==
    <>(SignalMonitor(state.cursor) = Some(m_b))

\* C34: for every bounds pair min <= max, poll_min = 0 included, and
\* either strategy, from every poller state a sequence of ticks reaches, a
\* run of consecutive idle ticks once begun brings current back to max.
C34_IdleRunReachesMax ==
    (op.name = "idle") ~> (st.current = st.max)

\* A step of a snapshot() call.
SnapshotStep ==
    /\ ui' # ui
    /\ \/ ui.pc \in {"s_now", "s_state", "s_visible"}
       \/ ui.pc = "idle" /\ (ui'.pc = "s_now" \/ ui'.op = "snapshot")

\* C35: snapshot() only reads the shared Input State: the fresh cursor
\* reading and the suppression of the focus act on its private copy, so no
\* step of a snapshot() call changes the stored cursor or focus signal.
C35_SnapshotLeavesStoredState ==
    [][SnapshotStep => /\ state'.cursor = state.cursor
                       /\ state'.focus = state.focus]_vars

\* A snapshot has returned whose copy took a fresh cursor reading and
\* lost its focus signal, while the Input State it was cloned from is
\* still the stored one.
C35_Witness ==
    /\ ui.pc = "idle"
    /\ ui.op = "snapshot"
    /\ ui.launcher_visible
    /\ IsSome(ui.cloned.focus)
    /\ ui.state.focus = None
    /\ ui.state.cursor # ui.cloned.cursor
    /\ state = ui.cloned

\* C36: after any sequence of background ticks, force_focus_update()
\* calls and snapshots, a monitor returned by snapshot() is an element of
\* the tracker's monitor list.
C36_SnapshotReturnsListedMonitor ==
    (ui.op = "snapshot" /\ IsSome(ui.result))
        => \E i \in DOMAIN monitors : monitors[i] = Unwrap(ui.result)

\* With both signals stored by ticks and forced updates, a snapshot of a
\* two-monitor tracker has returned the second monitor of the list.
C36_Witness ==
    /\ ui.pc = "idle"
    /\ ui.op = "snapshot"
    /\ Len(monitors) = 2
    /\ IsSome(state.cursor)
    /\ IsSome(state.focus)
    /\ ui.result = Some(monitors[2])

\* Whether the thread is waiting for a mutex the other thread holds.
LkWaitsFor(who, other) ==
    /\ LkRunning(st[who])
    /\ LkNextIns(st[who]).kind = "lock"
    /\ st.owner[LkNextIns(st[who]).what] = other

\* C37: neither snapshot(), force_focus_update() nor the background loop
\* takes one of the tracker's two mutexes while it holds the other: a
\* thread holds at most one of them, takes a mutex holding none, and the
\* two threads never wait for each other's mutex.
C37_NoNestedLocking ==
    /\ \A who \in LkThreads : Cardinality(LkHeld(st, who)) <= 1
    /\ op.ins.kind = "lock" => op.held = {}
    /\ \A who \in LkThreads :
          (LkRunning(st[who]) /\ LkNextIns(st[who]).kind = "lock")
              => LkHeld(st, who) = {}
    /\ ~(LkWaitsFor("bg", "ui") /\ LkWaitsFor("ui", "bg"))

\* force_focus_update() waits for the Input State mutex while the
\* background tick holds it, the monitor-list mutex being free.
C37_Witness ==
    /\ st.ui.prog = "force_focus_update"
    /\ LkWaitsFor("ui", "bg")
    /\ LkHeld(st, "bg") = {"state"}
    /\ st.owner.monitors = "free"

\* C40: after any sequence of set_windows, remove_window,
\* remove_app_windows, mark_minimized, select_next, select_prev and grid
\* moves, selected_index is None exactly when the window list is empty and
\* otherwise an index into the list, so activate_selected never indexes
\* out of range.
C40_SelectionWithinWindows ==
    /\ ~IsSome(st.selected_index) <=> st.windows = <<>>
    /\ IsSome(st.selected_index)
           => Unwrap(st.selected_index) \in 0..(Len(st.windows) - 1)
    /\ op.name = "activate_selected" => ~op.result.panicked

\* With the last of three windows selected, a window was removed, and the
\* selection is the last of the two that remain.
C40_Witness ==
    /\ op.name = "remove_window"
    /\ Len(op.pre.windows) = 3
    /\ op.pre.selected_index = Some(2)
    /\ Len(st.windows) = 2
    /\ st.selected_index = Some(1)

\* C39 as stated: whenever physical_monitors reports more than one
\* display the tracker's monitor list is that native list, and the generic
\* display list is used only when the native query reports at most one.
C39_NativeListPreferred ==
    st.started =>
        /\ Len(st.native) > 1 => monitors = st.native
        /\ Len(st.native) <= 1 => monitors = st.generic

\* C39, amended: on macOS the list is the native list whenever
\* physical_monitors reports more than one display; on Linux it is the
\* native list only when the generic display list has at most one display
\* and the native one more than one; in every other case, and on every
\* other platform, it is the generic display list.
C39_NativeListPerPlatform ==
    st.started =>
        monitors =
            IF \/ st.target_os = "macos" /\ Len(st.native) > 1
               \/ /\ st.target_os = "linux"
                  /\ Len(st.generic) <= 1
                  /\ Len(st.native) > 1
            THEN st.native
            ELSE st.generic

\* A Linux tracker was started where both queries report two displays, in
\* different coordinates, and holds the generic list.
C39_Witness ==
    /\ st.started
    /\ st.target_os = "linux"
    /\ Len(st.native) > 1
    /\ Len(st.generic) > 1
    /\ st.native # st.generic
    /\ monitors = st.generic

\* C38: the PICKER_VISIBLE flag is true whenever the picker is shown:
\* every open_picker call that leaves the picker on screen (a new window,
\* a dismissed window shown again, a visible one cycled) ends with the flag
\* true, and every dismissal (escape, activation of the selected window,
\* focus-out outside hold-to-switch mode) sets it false.
C38_FlagTrueWhileShown ==
    /\ (op.name = "open_picker" /\ st.on_screen) => st.picker_visible
    /\ op.path = "dismissed" => ~st.picker_visible

====
